---- MODULE Spec2Model ----
(***************************************************************************)
(* Verification model of the experimental Arimaa engine:                   *)
(*   - the search-space reducer (utils/searchspace_reducer.py),            *)
(*   - the anytime picker (common/search/anytime_picker.py,                *)
(*     utils/move_picker.py),                                              *)
(*   - the enumerating selector (utils/eval_glue.py),                      *)
(*   - the deadline tracker (common/time/time_keeper.py),                  *)
(*   - the AEI protocol engine (simple_engine_two.py).                     *)
(* The board library (pyrimaa.board) is external to these files; it is    *)
(* modelled by a one-row board with one piece per side.                    *)
(* Time is counted in units of 10 ms, scores in hundredths.                *)
(***************************************************************************)
EXTENDS Integers, Sequences, FiniteSets, TLC

\* ------------------------------------------------------------------ bounds
MaxSteps == 2        \* steps per full move on the small board
MaxClock == 3        \* largest clock reading explored
MaxRounds == 2       \* reducer invocations of one picker run
MaxAttempts == 2     \* largest configured attempt cap
MaxLine == 5         \* longest move line given to the notation translator
MaxMoves == 3        \* longest move list given to the two-stage selector

\* ------------------------------------------------------- optional values
NoneV == <<>>
Some(x) == <<x>>
IsNone(o) == o = <<>>
Val(o) == o[1]

Max2(a, b) == IF a >= b THEN a ELSE b
Min2(a, b) == IF a <= b THEN a ELSE b

\* ------------------------------------------------ board library (external)
GOLD == "GOLD"
SILVER == "SILVER"
EMPTY == "."
GELEPHANT == "E"
SCAT == "c"
Squares == 0..3
BLANK_BOARD == <<EMPTY, EMPTY, EMPTY, EMPTY>>
GOLD_PLACED == <<GELEPHANT, EMPTY, EMPTY, EMPTY>>
BASIC_SETUP == <<GELEPHANT, EMPTY, EMPTY, SCAT>>

Other(color) == IF color = GOLD THEN SILVER ELSE GOLD
Owner(piece) == IF piece = GELEPHANT THEN GOLD ELSE IF piece = SCAT THEN SILVER ELSE "nobody"
Position(color, board) == [color |-> color, board |-> board]
piece_at(pos, sq) == pos.board[sq + 1]

\* boards with both pieces on the row (the pieces cannot pass each other)
PlayBoards == {[i \in 1..4 |-> IF i = g + 1 THEN GELEPHANT ELSE IF i = s + 1 THEN SCAT ELSE EMPTY] : <<g, s>> \in {x \in Squares \X Squares : x[1] < x[2]}}
PlayPositions == {Position(c, b) : c \in {GOLD, SILVER}, b \in PlayBoards}

\* the single steps the side `color` has on `board`: a piece to an adjacent empty square
get_steps(board, color) == {st \in Squares \X Squares : /\ Owner(board[st[1] + 1]) = color
                                                        /\ (st[2] = st[1] + 1 \/ st[2] = st[1] - 1)
                                                        /\ board[st[2] + 1] = EMPTY}
do_step(board, st) == [i \in 1..4 |-> IF i = st[2] + 1 THEN board[st[1] + 1] ELSE IF i = st[1] + 1 THEN EMPTY ELSE board[i]]

RECURSIVE StepSeqs(_, _, _)
StepSeqs(board, color, n) == IF n = 0 THEN {}
                             ELSE UNION {{<< <<st>>, do_step(board, st)>>} \cup {<< <<st>> \o r[1], r[2]>> : r \in StepSeqs(do_step(board, st), color, n - 1)} : st \in get_steps(board, color)}

\* every legal full move of pos: 1..MaxSteps steps with a net change of the board
MoveSet(pos) == {[steps |-> r[1], result |-> Position(Other(pos.color), r[2])] : r \in {q \in StepSeqs(pos.board, pos.color, MaxSteps) : q[2] # pos.board}}

\* the outcomes of one random draw: a legal move, or (None, pos) when immobilized
get_rnd_step_move(pos) == IF MoveSet(pos) = {} THEN {[steps |-> NoneV, result |-> pos]} ELSE {[steps |-> Some(m.steps), result |-> m.result] : m \in MoveSet(pos)}

\* get_moves(): the dict {result: steps}, one entry per resulting position, as the
\* sequence of its items in insertion order (shorter moves are found first)
RECURSIVE StepsCode(_)
StepsCode(steps) == IF steps = <<>> THEN 0 ELSE 16 * StepsCode(SubSeq(steps, 1, Len(steps) - 1)) + 4 * steps[Len(steps)][1] + steps[Len(steps)][2]
MoveBefore(a, b) == Len(a.steps) < Len(b.steps) \/ (Len(a.steps) = Len(b.steps) /\ StepsCode(a.steps) < StepsCode(b.steps))
RECURSIVE SeqOfMoves(_)
SeqOfMoves(S) == IF S = {} THEN <<>> ELSE LET m == CHOOSE x \in S : \A y \in S \ {x} : MoveBefore(x, y) IN <<m>> \o SeqOfMoves(S \ {m})
get_moves(pos) == SeqOfMoves({m \in MoveSet(pos) : \A o \in MoveSet(pos) : o.result = m.result => (o = m \/ MoveBefore(m, o))})

\* move notation: one token per step (piece, square, direction), or per placed piece
StepToken(board, st) == [p |-> board[st[1] + 1], sq |-> st[1], d |-> IF st[2] = st[1] + 1 THEN "e" ELSE "w"]
RECURSIVE steps_to_str_on(_, _)
steps_to_str_on(board, steps) == IF steps = <<>> THEN <<>> ELSE <<StepToken(board, Head(steps))>> \o steps_to_str_on(do_step(board, Head(steps)), Tail(steps))
steps_to_str(pos, steps) == steps_to_str_on(pos.board, steps)
\* the placement of the basic setup, per side
to_placing_move(color) == IF color = GOLD THEN <<[p |-> GELEPHANT, sq |-> 0, d |-> "-"]>> ELSE <<[p |-> SCAT, sq |-> 3, d |-> "-"]>>
HomeSquares(color) == IF color = GOLD THEN {0, 1} ELSE {2, 3}

IllegalMove == [color |-> "IllegalMove", board |-> <<>>]
TokenStep(tok) == <<tok.sq, IF tok.d = "e" THEN tok.sq + 1 ELSE tok.sq - 1>>
RECURSIVE do_steps_str(_, _, _)
do_steps_str(board, color, mstr) == IF mstr = <<>> THEN board
                                    ELSE LET tok == Head(mstr) IN
                                         IF tok.d \in {"e", "w"} /\ TokenStep(tok) \in get_steps(board, color) /\ board[tok.sq + 1] = tok.p
                                         THEN do_steps_str(do_step(board, TokenStep(tok)), color, Tail(mstr))
                                         ELSE <<>>
\* do_move_str(): the position after the move, or IllegalMove
do_move_str(pos, mstr) == IF mstr = <<>> THEN IllegalMove
                          ELSE IF \A i \in 1..Len(mstr) : mstr[i].d = "-"
                          THEN (IF /\ Len(mstr) = 1
                                   /\ \A sq \in Squares : Owner(pos.board[sq + 1]) # pos.color
                                   /\ Owner(mstr[1].p) = pos.color
                                   /\ mstr[1].sq \in HomeSquares(pos.color)
                                   /\ pos.board[mstr[1].sq + 1] = EMPTY
                                THEN Position(Other(pos.color), [i \in 1..4 |-> IF i = mstr[1].sq + 1 THEN mstr[1].p ELSE pos.board[i]])
                                ELSE IllegalMove)
                          ELSE LET b == IF Len(mstr) <= MaxSteps THEN do_steps_str(pos.board, pos.color, mstr) ELSE <<>>
                               IN IF b = <<>> \/ b = pos.board THEN IllegalMove ELSE Position(Other(pos.color), b)

\* +1 when Gold has won, -1 when Silver has won, 0 otherwise
is_end_state(pos) == IF pos.board = <<EMPTY, EMPTY, GELEPHANT, SCAT>> THEN 1 ELSE IF pos.board = <<GELEPHANT, SCAT, EMPTY, EMPTY>> THEN -1 ELSE 0

\* ------------------------------------------------------------ evaluation
PosInf == 1000000
NegInf == 0 - PosInf
WeightValues == {-1, 0, 1}

\* the squares next to a square of the set, and the squares a side's pieces stand on
neighbors_of(S) == {sq \in Squares : \E t \in S : sq = t + 1 \/ sq = t - 1}
placement(board, color) == {sq \in Squares : Owner(board[sq + 1]) = color}
TRAP_BITS == {1}
\* a piece next to a stronger enemy piece and to no piece of its own side
is_frozen_at(board, sq) == /\ board[sq + 1] = SCAT
                           /\ \E n \in neighbors_of({sq}) : board[n + 1] = GELEPHANT
                           /\ neighbors_of({sq}) \cap placement(board, SILVER) = {}

\* the features, in hundredths: each is computed for Gold and negated for Silver
feature_material_counts(pos, perspective) ==
    LET gold == 14 * Cardinality(placement(pos.board, GOLD))
        silver == 2 * Cardinality(placement(pos.board, SILVER))
        score_for_gold == 100 * (gold - silver)
    IN IF perspective = GOLD THEN score_for_gold ELSE 0 - score_for_gold

\* the trap feature; the adjacent count is the defender count, computed again
feature_trap_control_and_danger_crowded(pos, perspective) ==
    LET g_def == Cardinality(neighbors_of(TRAP_BITS) \cap placement(pos.board, GOLD))
        s_def == Cardinality(neighbors_of(TRAP_BITS) \cap placement(pos.board, SILVER))
        g_att == Cardinality(neighbors_of(TRAP_BITS) \cap placement(pos.board, Other(GOLD)))
        s_att == Cardinality(neighbors_of(TRAP_BITS) \cap placement(pos.board, Other(SILVER)))
        g_adj == Cardinality(neighbors_of(TRAP_BITS) \cap (placement(pos.board, GOLD) \cup placement(pos.board, SILVER)))
        s_adj == g_adj
        score_for_gold == 35 * ((g_def - g_att) - (s_def - s_att))
                          - 50 * Max2(0, g_adj - 2 * g_def) + 50 * Max2(0, s_adj - 2 * s_def)
                          - (IF placement(pos.board, GOLD) \cap TRAP_BITS # {} THEN 125 * Max2(0, 1 - g_def) ELSE 0)
                          + (IF placement(pos.board, SILVER) \cap TRAP_BITS # {} THEN 125 * Max2(0, 1 - s_def) ELSE 0)
    IN IF perspective = GOLD THEN score_for_gold ELSE 0 - score_for_gold
feature_trap_control_and_danger(pos, perspective) ==
    LET g_def == Cardinality(neighbors_of(TRAP_BITS) \cap placement(pos.board, GOLD))
        s_def == Cardinality(neighbors_of(TRAP_BITS) \cap placement(pos.board, SILVER))
        g_att == Cardinality(neighbors_of(TRAP_BITS) \cap placement(pos.board, Other(GOLD)))
        s_att == Cardinality(neighbors_of(TRAP_BITS) \cap placement(pos.board, Other(SILVER)))
        g_adj == Cardinality(neighbors_of(TRAP_BITS) \cap placement(pos.board, GOLD))
        s_adj == Cardinality(neighbors_of(TRAP_BITS) \cap placement(pos.board, SILVER))
        score_for_gold == 35 * ((g_def - g_att) - (s_def - s_att))
                          - 50 * Max2(0, g_adj - 2 * g_def) + 50 * Max2(0, s_adj - 2 * s_def)
                          - (IF placement(pos.board, GOLD) \cap TRAP_BITS # {} THEN 125 * Max2(0, 1 - g_def) ELSE 0)
                          + (IF placement(pos.board, SILVER) \cap TRAP_BITS # {} THEN 125 * Max2(0, 1 - s_def) ELSE 0)
    IN IF perspective = GOLD THEN score_for_gold ELSE 0 - score_for_gold

feature_frozen_pieces(pos, perspective) ==
    LET g == 250 * Cardinality({sq \in placement(pos.board, GOLD) : is_frozen_at(pos.board, sq)})
        s == 100 * Cardinality({sq \in placement(pos.board, SILVER) : is_frozen_at(pos.board, sq)})
        score_for_gold == s - g
    IN IF perspective = GOLD THEN score_for_gold ELSE 0 - score_for_gold

\* mobility by legal steps of each side, or by the empty squares next to its pieces
feature_mobility_unsigned(pos, perspective, use_legal_steps) ==
    100 * (Cardinality(get_steps(pos.board, GOLD)) - Cardinality(get_steps(pos.board, SILVER)))
feature_mobility(pos, perspective, use_legal_steps) ==
    LET empty == {sq \in Squares : pos.board[sq + 1] = EMPTY}
        g == IF use_legal_steps THEN Cardinality(get_steps(pos.board, GOLD))
             ELSE Cardinality(neighbors_of(placement(pos.board, GOLD)) \cap empty)
        s == IF use_legal_steps THEN Cardinality(get_steps(pos.board, SILVER))
             ELSE Cardinality(neighbors_of(placement(pos.board, SILVER)) \cap empty)
        score_for_gold == 100 * (g - s)
    IN IF perspective = GOLD THEN score_for_gold ELSE 0 - score_for_gold

IndexOf(board, piece) == CHOOSE sq \in Squares : board[sq + 1] = piece
\* net advancement, Gold minus Silver, negated for Silver's perspective
feature_advancement(pos, perspective) == LET g == IF \E sq \in Squares : pos.board[sq + 1] = GELEPHANT THEN IndexOf(pos.board, GELEPHANT) ELSE 0
                                             s == IF \E sq \in Squares : pos.board[sq + 1] = SCAT THEN 3 - IndexOf(pos.board, SCAT) ELSE 0
                                         IN IF perspective = GOLD THEN 100 * (g - s) ELSE 0 - 100 * (g - s)

\* a piece one step from its goal square, not frozen, with the goal square empty
feature_immediate_goal_threats(pos, perspective) ==
    LET g == Cardinality({sq \in placement(pos.board, GOLD) : sq = 2 /\ ~is_frozen_at(pos.board, sq) /\ pos.board[sq + 2] = EMPTY})
        s == Cardinality({sq \in placement(pos.board, SILVER) : sq = 1 /\ ~is_frozen_at(pos.board, sq) /\ pos.board[sq] = EMPTY})
        score_for_gold == 100 * (g - s)
    IN IF perspective = GOLD THEN score_for_gold ELSE 0 - score_for_gold

EvalWeights(material, trap, frozen, mobility, rabbits, goal_threat) ==
    [material |-> material, trap |-> trap, frozen |-> frozen, mobility |-> mobility, rabbits |-> rabbits, goal_threat |-> goal_threat]

\* the terminal test first, then the weighted sum of the six features
evaluate_position_for_loser(pos, perspective, w, legal_mobility) ==
    LET end == is_end_state(pos)
        winner_color == IF end = 1 THEN SILVER ELSE GOLD
    IN IF end # 0 THEN (IF winner_color = perspective THEN PosInf ELSE NegInf)
       ELSE w.material * feature_material_counts(pos, perspective)
            + w.trap * feature_trap_control_and_danger(pos, perspective)
            + w.frozen * feature_frozen_pieces(pos, perspective)
            + w.mobility * feature_mobility(pos, perspective, legal_mobility)
            + w.rabbits * feature_advancement(pos, perspective)
            + w.goal_threat * feature_immediate_goal_threats(pos, perspective)
evaluate_position(pos, perspective, w, legal_mobility) ==
    LET end == is_end_state(pos)
        winner_color == IF end = 1 THEN GOLD ELSE SILVER
    IN IF end # 0 THEN (IF winner_color = perspective THEN PosInf ELSE NegInf)
       ELSE w.material * feature_material_counts(pos, perspective)
            + w.trap * feature_trap_control_and_danger(pos, perspective)
            + w.frozen * feature_frozen_pieces(pos, perspective)
            + w.mobility * feature_mobility(pos, perspective, legal_mobility)
            + w.rabbits * feature_advancement(pos, perspective)
            + w.goal_threat * feature_immediate_goal_threats(pos, perspective)

\* 0.01 * max(0, 4 - len(steps)), in hundredths
shaping_penalty(steps) == Max2(0, 4 - Len(steps))
Minus(base, pen) == IF base = PosInf \/ base = NegInf THEN base ELSE base - pen
\* the searches of the model run with a weight record that counts advancement only
score_move(from_pos, to_pos, steps, w) == Minus(evaluate_position(to_pos, from_pos.color, EvalWeights(0, 0, 0, 0, w, 0), TRUE), shaping_penalty(steps))

\* ------------------------------------------------------ deadline tracker
safety_margin_s == 3
start_move_unclamped(now, budget_s) == IF IsNone(budget_s) THEN NoneV ELSE Some(now + Val(budget_s) - safety_margin_s)
start_move(now, budget_s) == IF IsNone(budget_s) THEN NoneV ELSE Some(now + Max2(0, Val(budget_s) - safety_margin_s))
out_of_time(now, dl) == ~IsNone(dl) /\ now >= Val(dl)
time_left(now, dl) == IF IsNone(dl) THEN NoneV ELSE Some(Val(dl) - now)

\* ----------------------------------------------------- constraint buckets
MoveConstraints(only_pieces, only_squares) == [only_pieces |-> only_pieces, only_squares |-> only_squares]
big_pieces(side_to_move) == IF side_to_move = GOLD THEN {GELEPHANT} ELSE {"e"}
trap_region_square_indices == TRAP_BITS \cup neighbors_of(TRAP_BITS)
goal_region_square_indices(side_to_move) == IF side_to_move = GOLD THEN {2, 3} ELSE {0, 1}
build_constraint_buckets(pos) == << MoveConstraints(NoneV, NoneV),
                                    MoveConstraints(Some(big_pieces(pos.color)), NoneV),
                                    MoveConstraints(NoneV, Some(trap_region_square_indices)),
                                    MoveConstraints(NoneV, Some(goal_region_square_indices(pos.color))) >>

\* --------------------------------------------------- search-space reducer
matches_constraints(from_pos, steps, only_pieces, only_squares) ==
    IF IsNone(only_pieces) /\ IsNone(only_squares) THEN TRUE
    ELSE \A i \in 1..Len(steps) :
            /\ (~IsNone(only_squares) => (steps[i][1] \in Val(only_squares) /\ steps[i][2] \in Val(only_squares)))
            /\ (~IsNone(only_pieces) => (piece_at(from_pos, steps[i][1]) # EMPTY /\ piece_at(from_pos, steps[i][1]) \in Val(only_pieces)))

VARIABLES pos, deadline, clock, buckets, max_attempts_per_bucket, random_ties, weights,
          entry, pc, bucket_i, best, best_score, scored, rounds,
          r_caller, r_cons, r_left, r_fallback, last, ret, out, draws,
          moves, idx, enumerated,
          position, insetup, tc_move_s, tc_turntime_s, reserve_s, move_delay, tk_deadline,
          messages, sent, epc, move_str, cleared, total_move_time,
          waited, probe

cfgvars == <<buckets, max_attempts_per_bucket, random_ties, weights>>
selvars == <<best, best_score, scored>>
rvars == <<r_caller, r_cons, r_left, r_fallback, last, ret>>
gvars == <<moves, idx, enumerated>>
evars == <<position, insetup, tc_move_s, tc_turntime_s, reserve_s, move_delay, tk_deadline, messages, sent, epc, move_str, cleared, total_move_time, waited, probe>>
vars == <<pos, deadline, clock, cfgvars, entry, pc, bucket_i, selvars, rounds, rvars, out, draws, gvars, evars>>

\* "return None, pos": no steps, and the position that was passed in
NoMoveElsewhere(from_pos) == [steps |-> NoneV, result |-> Position(Other(from_pos.color), from_pos.board)]
NoMove(from_pos) == [steps |-> NoneV, result |-> from_pos]

\* what get_filtered_move returns when its loop ends without a match
reducer_end(from_pos, fallback_to_unfiltered, last_move) == IF fallback_to_unfiltered /\ ~IsNone(last_move.steps) THEN last_move ELSE NoMove(from_pos)

\* the return of get_filtered_move to the code that called it
ReducerReturn(r) == /\ ret' = r
                    /\ pc' = (CASE r_caller = "main" -> "pick_got" [] r_caller = "fallback" -> "pick_fb_got" [] OTHER -> "done")
                    /\ out' = IF r_caller = "direct" THEN r ELSE out

\* get_filtered_move turns a relative budget into a deadline at the clock reading now
reducer_deadline_unclamped(now, time_budget_s) == Some(now + time_budget_s)
reducer_deadline(now, time_budget_s) == Some(now + Max2(0, time_budget_s))

\* the entry of get_filtered_move: exactly one of time_budget_s and deadline, or
\* ValueError; the call's arguments are in probe
ReducerCall == /\ pc = "reducer_call"
               /\ IF IsNone(probe.time_budget_s) = IsNone(probe.deadline)
                  THEN /\ pc' = "value_error"
                       /\ UNCHANGED <<deadline, clock>>
                  ELSE /\ pc' = "reducer"
                       /\ IF IsNone(probe.deadline)
                          THEN \E t \in clock..MaxClock :
                                 /\ clock' = t
                                 /\ deadline' = reducer_deadline(t, Val(probe.time_budget_s))
                          ELSE UNCHANGED <<deadline, clock>>
               /\ UNCHANGED <<pos, cfgvars, entry, bucket_i, selvars, rounds, rvars, out, draws, gvars, evars>>

\* range(max(1, limits.max_attempts)): the iterations of the for-loop
attempts_one_more(max_attempts) == Max2(1, max_attempts) + 1
attempts(max_attempts) == Max2(1, max_attempts)

\* the for-loop of get_filtered_move has used up its attempts
ReducerExhausted == /\ pc = "reducer"
                    /\ r_left = 0
                    /\ ReducerReturn(reducer_end(pos, r_fallback, last))
                    /\ UNCHANGED <<pos, deadline, clock, cfgvars, entry, bucket_i, selvars, rounds, r_caller, r_cons, r_left, r_fallback, last, draws, gvars, evars>>

\* one iteration of the for-loop of get_filtered_move: deadline check, one draw, constraint test
ReducerIter == /\ pc = "reducer"
               /\ r_left > 0
               /\ \E t \in clock..MaxClock :
                    /\ clock' = t
                    /\ IF t >= Val(deadline)
                       THEN /\ ReducerReturn(reducer_end(pos, r_fallback, last))
                            /\ UNCHANGED <<last, r_left, draws>>
                       ELSE \E m \in get_rnd_step_move(pos) :
                              /\ draws' = draws + 1
                              /\ IF IsNone(m.steps)
                                 THEN /\ ReducerReturn(NoMove(pos))
                                      /\ UNCHANGED <<last, r_left>>
                                 ELSE /\ last' = m
                                      /\ IF matches_constraints(pos, Val(m.steps), r_cons.only_pieces, r_cons.only_squares)
                                         THEN /\ ReducerReturn(m)
                                              /\ UNCHANGED r_left
                                         ELSE /\ r_left' = r_left - 1
                                              /\ UNCHANGED <<pc, ret, out>>
               /\ UNCHANGED <<pos, deadline, cfgvars, entry, bucket_i, selvars, rounds, r_caller, r_cons, r_fallback, gvars, evars>>

\* --------------------------------------------------------- anytime picker
\* the best-so-far update
update_best_replacing(s, bs, b, cand) == IF s >= bs THEN <<cand>> ELSE b
update_best_score(s, bs) == IF s > bs THEN s ELSE bs
update_best(s, bs, b, cand) == IF s > bs THEN <<cand>> ELSE IF s = bs THEN Append(b, cand) ELSE b

\* no-deadline mode: one random draw
PickNoDeadline == /\ pc = "pick_start"
                  /\ IsNone(deadline)
                  /\ \E m \in get_rnd_step_move(pos) :
                       /\ out' = (IF IsNone(m.steps) THEN NoMove(pos) ELSE m)
                       /\ draws' = draws + 1
                  /\ pc' = "done"
                  /\ UNCHANGED <<pos, deadline, clock, cfgvars, entry, bucket_i, selvars, rounds, rvars, gvars, evars>>

\* deadline mode of common/search/anytime_picker: an empty bucket list is rejected
\* with ValueError, else the loop's locals
PickStart == /\ pc = "pick_start"
             /\ entry = "pick"
             /\ ~IsNone(deadline)
             /\ IF Len(buckets) > 0
                THEN /\ best_score' = NegInf
                     /\ best' = <<>>
                     /\ bucket_i' = 0
                     /\ pc' = "pick_while"
                ELSE /\ pc' = "buckets_error"
                     /\ UNCHANGED <<best_score, best, bucket_i>>
             /\ UNCHANGED <<pos, deadline, clock, cfgvars, entry, scored, rounds, rvars, out, draws, gvars, evars>>

\* deadline mode of utils/move_picker: the default buckets when none are given
\* (an empty list is not None and is kept), then the loop's locals
MovePickerStart == /\ pc = "pick_start"
                   /\ entry = "move_picker"
                   /\ ~IsNone(deadline)
                   /\ buckets' = (IF probe.buckets_is_none THEN build_constraint_buckets(pos) ELSE buckets)
                   /\ best_score' = NegInf
                   /\ best' = <<>>
                   /\ bucket_i' = 0
                   /\ pc' = "pick_while"
                   /\ UNCHANGED <<pos, deadline, clock, max_attempts_per_bucket, random_ties, weights, entry, scored, rounds, rvars, out, draws, gvars, evars>>

\* the index of the bucket after bucket i of n
next_bucket_stuck(i, n) == i
next_bucket(i, n) == (i + 1) % Max2(1, n)

\* the loop test, the bucket rotation and the call of the reducer
PickWhile == /\ pc = "pick_while"
             /\ \E t \in clock..MaxClock :
                  /\ clock' = t
                  /\ IF t < Val(deadline) /\ buckets = <<>>
                     THEN /\ pc' = "index_error"     \* buckets[bucket_i] of an empty list
                          /\ UNCHANGED <<rounds, r_cons, bucket_i, r_left, r_fallback, last, r_caller>>
                     ELSE IF t < Val(deadline)
                     THEN /\ rounds < MaxRounds
                          /\ rounds' = rounds + 1
                          /\ r_cons' = buckets[bucket_i + 1]
                          /\ bucket_i' = next_bucket(bucket_i, Len(buckets))
                          /\ r_left' = attempts(Max2(1, max_attempts_per_bucket))
                          /\ r_fallback' = TRUE
                          /\ last' = NoMove(pos)
                          /\ r_caller' = "main"
                          /\ pc' = "reducer"
                     ELSE /\ pc' = "pick_after"
                          /\ UNCHANGED <<rounds, r_cons, bucket_i, r_left, r_fallback, last, r_caller>>
             /\ UNCHANGED <<pos, deadline, cfgvars, entry, selvars, ret, out, draws, gvars, evars>>

\* the check after each scoring: time.perf_counter() >= deadline
deadline_passed_unchecked(now, dl) == FALSE
deadline_passed(now, dl) == now >= Val(dl)

\* the reducer's answer: immobilized, or a candidate to score
PickGot == /\ pc = "pick_got"
           /\ IF IsNone(ret.steps)
              THEN /\ out' = NoMove(pos)
                   /\ pc' = "done"
                   /\ UNCHANGED <<clock, selvars>>
              ELSE LET s == score_move(pos, ret.result, Val(ret.steps), weights)
                   IN /\ best_score' = update_best_score(s, best_score)
                      /\ best' = update_best(s, best_score, best, ret)
                      /\ scored' = Append(scored, [cand |-> ret, s |-> s])
                      /\ \E t \in clock..MaxClock :
                           /\ clock' = t
                           /\ pc' = IF deadline_passed(t, deadline) THEN "pick_after" ELSE "pick_while"
                      /\ UNCHANGED out
           /\ UNCHANGED <<pos, deadline, cfgvars, entry, bucket_i, rounds, rvars, draws, gvars, evars>>

FallbackAttempts == 8
\* the final selection among the best
final_choices_last(b, ties) == IF ties /\ Len(b) > 1 THEN {b[i] : i \in 1..Len(b)} ELSE {b[Len(b)]}
final_choices(b, ties) == IF ties /\ Len(b) > 1 THEN {b[i] : i \in 1..Len(b)} ELSE {b[1]}

\* after the loop: the defensive fallback, or the final selection
PickAfter == /\ pc = "pick_after"
             /\ IF best = <<>>
                THEN /\ r_cons' = MoveConstraints(NoneV, NoneV)
                     /\ r_left' = attempts(FallbackAttempts)
                     /\ r_fallback' = TRUE
                     /\ last' = NoMove(pos)
                     /\ r_caller' = "fallback"
                     /\ pc' = "reducer"
                     /\ UNCHANGED out
                ELSE /\ \E c \in final_choices(best, random_ties) : out' = c
                     /\ pc' = "done"
                     /\ UNCHANGED <<r_cons, r_left, r_fallback, last, r_caller>>
             /\ UNCHANGED <<pos, deadline, clock, cfgvars, entry, bucket_i, selvars, rounds, ret, draws, gvars, evars>>

\* the answer of the fallback call
PickFallbackGot == /\ pc = "pick_fb_got"
                   /\ out' = (IF IsNone(ret.steps) THEN NoMove(pos) ELSE ret)
                   /\ pc' = "done"
                   /\ UNCHANGED <<pos, deadline, clock, cfgvars, entry, bucket_i, selvars, rounds, rvars, draws, gvars, evars>>

\* ------------------------------------------ enumerating selector (eval_glue)
\* get_moves() and the early return on an empty move list
EvalStart == /\ pc = "eval_start"
             /\ moves' = get_moves(pos)
             /\ enumerated' = TRUE
             /\ IF get_moves(pos) = <<>>
                THEN /\ out' = NoMove(pos)
                     /\ pc' = "done"
                     /\ UNCHANGED <<selvars, idx>>
                ELSE /\ best_score' = NegInf
                     /\ best' = <<>>
                     /\ scored' = <<>>
                     /\ idx' = 1
                     /\ pc' = "eval_loop"
                     /\ UNCHANGED out
             /\ UNCHANGED <<pos, deadline, clock, cfgvars, entry, bucket_i, rounds, rvars, draws, evars>>

EvalCand(m) == [steps |-> Some(m.steps), result |-> m.result]
\* "if not best": the first item of the enumeration
first_enumerated_dropped(ms) == [steps |-> NoneV, result |-> ms[1].result]
first_enumerated(ms) == EvalCand(ms[1])

\* one iteration of the loop over moves.items(): deadline check, score, update, deadline check
EvalIter == /\ pc = "eval_loop"
            /\ \E t1 \in (IF IsNone(deadline) THEN {clock} ELSE clock..MaxClock) :
                 IF out_of_time(t1, deadline)
                 THEN /\ clock' = t1
                      /\ pc' = "eval_after"
                      /\ UNCHANGED <<selvars, idx>>
                 ELSE LET s == score_move(pos, moves[idx].result, moves[idx].steps, weights)
                      IN /\ best_score' = update_best_score(s, best_score)
                         /\ best' = update_best(s, best_score, best, EvalCand(moves[idx]))
                         /\ scored' = Append(scored, [cand |-> EvalCand(moves[idx]), s |-> s])
                         /\ idx' = idx + 1
                         /\ \E t2 \in (IF IsNone(deadline) THEN {t1} ELSE t1..MaxClock) :
                              /\ clock' = t2
                              /\ pc' = IF out_of_time(t2, deadline) \/ idx = Len(moves) THEN "eval_after" ELSE "eval_loop"
            /\ UNCHANGED <<pos, deadline, cfgvars, entry, bucket_i, rounds, rvars, out, draws, moves, enumerated, evars>>

\* after the loop: the first enumerated move when nothing was scored, else the final selection
EvalAfter == /\ pc = "eval_after"
             /\ IF best = <<>>
                THEN out' = first_enumerated(moves)
                ELSE \E c \in final_choices(best, random_ties) : out' = c
             /\ pc' = "done"
             /\ UNCHANGED <<pos, deadline, clock, cfgvars, entry, bucket_i, selvars, rounds, rvars, draws, gvars, evars>>

\* ------------------------------------------ two-stage selector (eval_selector)
\* the score of a move item under one evaluation variant, less the step shaping
two_stage_score(perspective, m, w, legal_mobility) ==
    Minus(evaluate_position(m.result, perspective, w, legal_mobility), shaping_penalty(m.steps))

\* list.sort(key=score, reverse=True): descending and stable
sort_desc(sc) == [k \in 1..Len(sc) |->
                    sc[CHOOSE i \in 1..Len(sc) :
                          Cardinality({j \in 1..Len(sc) : sc[j].s > sc[i].s \/ (sc[j].s = sc[i].s /\ j < i)}) = k - 1]]

\* stage 0: the whole list, or a random sample of max_stage1_moves of its items
stage1_pools(ms, max_stage1_moves) ==
    IF max_stage1_moves > 0 /\ Len(ms) > max_stage1_moves
    THEN {[i \in 1..max_stage1_moves |-> ms[f[i]]] :
             f \in {g \in [1..max_stage1_moves -> 1..Len(ms)] : \A i, j \in 1..max_stage1_moves : i # j => g[i] # g[j]}}
    ELSE {ms}

\* stage 1: the pool scored with the cheap variant, sorted, cut to stage1_top_k
\* and then to stage2_top_k
RECURSIVE score_all(_, _, _, _)
score_all(perspective, ms, w, legal_mobility) ==
    IF ms = <<>> THEN <<>>
    ELSE <<[s |-> two_stage_score(perspective, Head(ms), w, legal_mobility), m |-> Head(ms)]>>
         \o score_all(perspective, Tail(ms), w, legal_mobility)
shortlist1(scored1, cfg) == SubSeq(sort_desc(scored1), 1, Min2(Len(scored1), Max2(1, cfg.stage1_top_k)))
shortlist2_whole(sl1, cfg) == sl1
shortlist2(sl1, cfg) == SubSeq(sl1, 1, Min2(Len(sl1), Max2(1, cfg.stage2_top_k)))

\* stage 2: the best-so-far update over the scored second shortlist
RECURSIVE stage2(_, _, _)
stage2(sc, bs, b) == IF sc = <<>> THEN [best_score |-> bs, best |-> b]
                     ELSE stage2(Tail(sc), update_best_score(sc[1].s, bs), update_best(sc[1].s, bs, b, sc[1].cand))

\* select_best_move_two_stage(pos, probe.moves, config=probe.config) in one step:
\* stage 2 scores the second shortlist with the expensive variant
TwoStage == /\ pc = "two_stage"
            /\ IF probe.moves = <<>>
               THEN /\ out' = NoMove(pos)
                    /\ UNCHANGED selvars
               ELSE \E pool \in stage1_pools(probe.moves, probe.config.max_stage1_moves) :
                    \E scored1 \in {score_all(pos.color, pool, probe.config.weights, probe.config.stage1_legal_mobility)} :
                    \E sl2 \in {shortlist2(shortlist1(scored1, probe.config), probe.config)} :
                    \E scored2 \in {score_all(pos.color, [i \in 1..Len(sl2) |-> sl2[i].m], probe.config.weights, probe.config.stage2_legal_mobility)} :
                    \E r \in {stage2([i \in 1..Len(scored2) |-> [cand |-> EvalCand(scored2[i].m), s |-> scored2[i].s]], NegInf, <<>>)} :
                       /\ scored' = [i \in 1..Len(scored2) |-> [cand |-> EvalCand(scored2[i].m), s |-> scored2[i].s]]
                       /\ best_score' = r.best_score
                       /\ best' = r.best
                       /\ IF r.best = <<>> THEN out' = NoMove(pos)
                          ELSE \E c \in final_choices(r.best, random_ties) : out' = c
            /\ pc' = "done"
            /\ UNCHANGED <<pos, deadline, clock, cfgvars, entry, bucket_i, rounds, rvars, draws, gvars, evars>>

\* move items and configurations given to the two-stage selector
TwoStageItems == {[steps |-> << <<1, 0>> >>, result |-> Position(SILVER, <<GELEPHANT, EMPTY, GELEPHANT, SCAT>>)],
                  [steps |-> << <<0, 1>> >>, result |-> Position(SILVER, <<EMPTY, GELEPHANT, EMPTY, SCAT>>)],
                  [steps |-> << <<2, 1>> >>, result |-> Position(SILVER, <<EMPTY, GELEPHANT, EMPTY, SCAT>>)],
                  [steps |-> << <<1, 2>>, <<2, 1>> >>, result |-> Position(SILVER, <<GELEPHANT, EMPTY, EMPTY, SCAT>>)]}
TwoStageConfig == [weights : {EvalWeights(0, 0, 0, 1, 0, 0), EvalWeights(0, 0, 0, -1, 0, 0)},
                   max_stage1_moves : {0, 2}, stage1_top_k : {0, 2, 3}, stage2_top_k : {1, 3},
                   stage1_legal_mobility : {FALSE}, stage2_legal_mobility : {TRUE}]

BudgetValues == {NoneV, Some(1), Some(4), Some(5)}

EngineOff == /\ position = Position(GOLD, BLANK_BOARD)
             /\ insetup = TRUE
             /\ tc_move_s = NoneV
             /\ tc_turntime_s = NoneV
             /\ reserve_s = [c \in {GOLD, SILVER} |-> 0]
             /\ move_delay = NoneV
             /\ tk_deadline = NoneV
             /\ messages = <<>>
             /\ sent = <<>>
             /\ epc = "off"
             /\ move_str = <<>>
             /\ cleared = FALSE
             /\ total_move_time = 0
             /\ waited = 0

\* the relative budgets a call of get_filtered_move is given, or none
TimeBudgets == {NoneV, Some(-1), Some(0), Some(2)}

\* a call of pick_move_anytime, get_filtered_move or get_eval_step_move at clock reading 0
InitSearch == /\ pos \in PlayPositions
              /\ clock = 0
              /\ \E b \in BudgetValues : deadline = start_move(0, b)
              /\ weights \in WeightValues
              /\ max_attempts_per_bucket \in {0, MaxAttempts}
              /\ best_score = NegInf
              /\ best = <<>>
              /\ scored = <<>>
              /\ bucket_i = 0
              /\ rounds = 0
              /\ draws = 0
              /\ last = NoMove(pos)
              /\ ret = NoMove(pos)
              /\ out = NoMove(pos)
              /\ moves = <<>>
              /\ idx = 1
              /\ enumerated = FALSE
              /\ r_cons \in {build_constraint_buckets(pos)[i] : i \in 1..4}
              /\ \/ /\ entry = "pick"
                    /\ pc = "pick_start"
                    /\ \E n \in 0..4 : buckets = SubSeq(build_constraint_buckets(pos), 1, n)
                    /\ random_ties \in BOOLEAN
                    /\ r_caller = "main"
                    /\ r_cons = MoveConstraints(NoneV, NoneV)
                    /\ r_left = 0
                    /\ r_fallback = TRUE
                 \/ /\ entry = "move_picker"
                    /\ pc = "pick_start"
                    /\ weights = 1
                    /\ max_attempts_per_bucket = 0
                    /\ \E n \in 0..4, none \in BOOLEAN :
                          /\ buckets = (IF none THEN <<>> ELSE SubSeq(build_constraint_buckets(pos), 1, n))
                          /\ none => n = 0
                          /\ probe = [buckets_is_none |-> none]
                    /\ random_ties \in BOOLEAN
                    /\ r_caller = "main"
                    /\ r_cons = MoveConstraints(NoneV, NoneV)
                    /\ r_left = 0
                    /\ r_fallback = TRUE
                 \/ /\ entry = "reducer"
                    /\ pc = "reducer_call"
                    /\ \E b \in TimeBudgets : probe = [time_budget_s |-> b, deadline |-> deadline]
                    /\ buckets = build_constraint_buckets(pos)
                    /\ random_ties = TRUE
                    /\ r_caller = "direct"
                    /\ r_left = attempts(max_attempts_per_bucket)
                    /\ r_fallback \in BOOLEAN
                 \/ /\ entry = "two_stage"
                    /\ pc = "two_stage"
                    /\ pos.board = BASIC_SETUP
                    /\ IsNone(deadline)
                    /\ weights = 1
                    /\ buckets = build_constraint_buckets(pos)
                    /\ max_attempts_per_bucket = 0
                    /\ random_ties \in BOOLEAN
                    /\ r_caller = "main"
                    /\ r_cons = MoveConstraints(NoneV, NoneV)
                    /\ r_left = 0
                    /\ r_fallback = TRUE
                    /\ \E n \in 0..MaxMoves : \E ms \in [1..n -> TwoStageItems], cfg \in TwoStageConfig :
                          probe = [moves |-> ms, config |-> cfg]
                 \/ /\ entry = "eval"
                    /\ pc = "eval_start"
                    /\ buckets = build_constraint_buckets(pos)
                    /\ max_attempts_per_bucket = 0
                    /\ random_ties \in BOOLEAN
                    /\ r_caller = "main"
                    /\ r_cons = MoveConstraints(NoneV, NoneV)
                    /\ r_left = 0
                    /\ r_fallback = TRUE
              /\ entry \notin {"reducer", "two_stage", "move_picker"} => probe = <<>>
              /\ EngineOff

NextSearch == \/ ReducerCall
              \/ ReducerExhausted
              \/ ReducerIter
              \/ PickNoDeadline
              \/ PickStart
              \/ MovePickerStart
              \/ PickWhile
              \/ PickGot
              \/ PickAfter
              \/ PickFallbackGot
              \/ EvalStart
              \/ EvalIter
              \/ EvalAfter
              \/ TwoStage

SpecSearch == InitSearch /\ [][NextSearch]_vars

\* ---------------------------------------------------------- AEI engine
MaxQueue == 2        \* lines waiting in the controller's queue

Msg(c) == [cmd |-> c, name |-> "", value |-> NoneV, side |-> "", board |-> <<>>, move |-> <<>>]
Line(kind, text, arg) == [kind |-> kind, text |-> text, arg |-> arg]

SetposBoards == {BASIC_SETUP, <<GELEPHANT, SCAT, EMPTY, EMPTY>>, <<EMPTY, GELEPHANT, SCAT, EMPTY>>}
OptionLines == {<<"tcmove", Some(2)>>, <<"tcmove", Some(5)>>, <<"tcturntime", Some(0)>>, <<"tcturntime", Some(4)>>,
                <<"greserve", Some(20)>>, <<"sreserve", Some(10)>>, <<"delaymove", Some(-1)>>,
                <<"tcreserve", Some(20)>>, <<"foo", NoneV>>}
MoveLines == {to_placing_move(GOLD), to_placing_move(SILVER),
              <<[p |-> GELEPHANT, sq |-> 0, d |-> "e"]>>,
              <<[p |-> SCAT, sq |-> 3, d |-> "w"]>>,
              <<[p |-> GELEPHANT, sq |-> 0, d |-> "e"], [p |-> GELEPHANT, sq |-> 1, d |-> "e"]>>,
              <<[p |-> GELEPHANT, sq |-> 3, d |-> "e"]>>}
\* the lines the controller may send
Lines == {Msg(c) : c \in {"aei", "isready", "newgame", "go", "go ponder", "stop", "quit", "junk"}}
         \cup {[Msg("setposition") EXCEPT !.side = sd, !.board = b] : sd \in {"g", "s"}, b \in SetposBoards}
         \cup {Msg("setposition")}
         \cup {[Msg("setoption") EXCEPT !.name = o[1], !.value = o[2]] : o \in OptionLines}
         \cup {[Msg("makemove") EXCEPT !.move = m] : m \in MoveLines}

\* the lines the controller sends behind a waiting line
FollowLines == {Msg("isready")}

std_opts_timed == {"tcmove", "tcturntime", "greserve", "sreserve"}
std_opts == {"tcmove", "tcreserve", "tcpercent", "tcmax", "tctotal", "tcturns", "tcturntime", "greserve", "sreserve",
             "gused", "sused", "lastmoveused", "moveused", "opponent", "opponent_rating"}

reserve_cap == 50
low_reserve == 15
low_reserve_extra == 5
compute_budget_s_uncapped(tc_move, tc_turntime, r) ==
    IF IsNone(tc_move) THEN NoneV
    ELSE LET budget == Val(tc_move) + r \div 10
         IN Some(IF ~IsNone(tc_turntime) /\ Val(tc_turntime) > 0 THEN Min2(budget, Val(tc_turntime)) ELSE budget)
compute_budget_s_by_cap(tc_move, tc_turntime, r) == IF IsNone(tc_move) \/ IsNone(tc_turntime) THEN NoneV ELSE Some(Min2(Val(tc_move), Val(tc_turntime)))
\* _compute_budget_s: None without an increment, else increment + a share of the reserve, capped
compute_budget_s(tc_move, tc_turntime, r) ==
    IF IsNone(tc_move) THEN NoneV
    ELSE LET inc == Val(tc_move)
             extra0 == Min2(r \div 10, reserve_cap)
             extra == IF r < low_reserve THEN Min2(extra0, low_reserve_extra) ELSE extra0
             budget == inc + extra
         IN Some(IF ~IsNone(tc_turntime) /\ Val(tc_turntime) > 0 THEN Min2(budget, Val(tc_turntime)) ELSE budget)

\* setoption tcturntime: a value of 0 or less means no per-turn cap
set_tcturntime(value) == IF Val(value) <= 0 THEN NoneV ELSE value

\* "gswb".find(side_str) % 2
side_of(side_str) == IF side_str \in {"g", "w"} THEN GOLD ELSE SILVER

\* the InSetup flag after a successful makemove
makemove_insetup_always(flag, color) == FALSE
makemove_insetup(flag, color) == IF flag /\ color = GOLD THEN FALSE ELSE flag

\* newgame(): the fields it sets; the increment and the per-turn cap are left alone
newgame_forgetting(tc_move, tc_turntime) == [position |-> Position(GOLD, BLANK_BOARD), insetup |-> TRUE, reserve_s |-> [c \in {GOLD, SILVER} |-> 0],
                                             tc_move_s |-> NoneV, tc_turntime_s |-> NoneV]
newgame(tc_move, tc_turntime) == [position |-> Position(GOLD, BLANK_BOARD), insetup |-> TRUE, reserve_s |-> [c \in {GOLD, SILVER} |-> 0],
                                  tc_move_s |-> tc_move, tc_turntime_s |-> tc_turntime]

\* the main loop returns when makemove() reports a failure
makemove_exit_never(ok, e) == e
makemove_exit(ok, e) == IF ok THEN e ELSE "stopped"

\* no selection is running
SearchIdle == /\ pos = Position(GOLD, BLANK_BOARD)
              /\ deadline = NoneV
              /\ clock = 0
              /\ buckets = <<>>
              /\ max_attempts_per_bucket = 0
              /\ random_ties = TRUE
              /\ weights = 1
              /\ entry = "go"
              /\ pc = "off"
              /\ bucket_i = 0
              /\ best = <<>>
              /\ best_score = NegInf
              /\ scored = <<>>
              /\ rounds = 0
              /\ r_caller = "main"
              /\ r_cons = MoveConstraints(NoneV, NoneV)
              /\ r_left = 0
              /\ r_fallback = TRUE
              /\ last = NoMove(Position(GOLD, BLANK_BOARD))
              /\ ret = NoMove(Position(GOLD, BLANK_BOARD))
              /\ out = NoMove(Position(GOLD, BLANK_BOARD))
              /\ draws = 0
              /\ moves = <<>>
              /\ idx = 1
              /\ enumerated = FALSE

\* the locals of a finished selection are gone
SearchReset == /\ pos' = Position(GOLD, BLANK_BOARD)
              /\ deadline' = NoneV
              /\ clock' = 0
              /\ buckets' = <<>>
              /\ max_attempts_per_bucket' = 0
              /\ random_ties' = TRUE
              /\ weights' = 1
              /\ entry' = "go"
              /\ pc' = "off"
              /\ bucket_i' = 0
              /\ best' = <<>>
              /\ best_score' = NegInf
              /\ scored' = <<>>
              /\ rounds' = 0
              /\ r_caller' = "main"
              /\ r_cons' = MoveConstraints(NoneV, NoneV)
              /\ r_left' = 0
              /\ r_fallback' = TRUE
              /\ last' = NoMove(Position(GOLD, BLANK_BOARD))
              /\ ret' = NoMove(Position(GOLD, BLANK_BOARD))
              /\ out' = NoMove(Position(GOLD, BLANK_BOARD))
              /\ draws' = 0
              /\ moves' = <<>>
              /\ idx' = 1
              /\ enumerated' = FALSE

searchvars == <<pos, deadline, clock, cfgvars, entry, pc, bucket_i, selvars, rounds, rvars, out, draws, gvars>>
tcvars == <<tc_move_s, tc_turntime_s, reserve_s, move_delay, total_move_time>>

\* Queue.put: the line goes to the back
put_front(q, m) == <<m>> \o q
put(q, m) == Append(q, m)

\* the reader thread puts one more line on the queue
Receive == /\ epc # "stopped"
           /\ Len(messages) < MaxQueue
           /\ \E m \in (IF messages = <<>> THEN Lines ELSE FollowLines) : messages' = put(messages, m)
           /\ UNCHANGED <<searchvars, position, insetup, tcvars, tk_deadline, sent, epc, move_str, cleared>>
           /\ UNCHANGED <<waited, probe>>

\* controller.messages.get(30): the seconds the code means to wait for the header
HandshakeTimeout == 30

\* the lines sent on the header, in order
handshake_lines_ack_first == <<Line("aeiok", "", <<>>), Line("protocol-version 1", "", <<>>), Line("id", "name", <<>>), Line("id", "author", <<>>)>>
handshake_lines == <<Line("protocol-version 1", "", <<>>), Line("id", "name", <<>>), Line("id", "author", <<>>), Line("aeiok", "", <<>>)>>

\* one more second goes by in messages.get(30) with the queue empty: the argument is
\* taken as `block`, no timeout is set, and the call goes on waiting
HandshakeWait == /\ epc = "handshake"
                 /\ messages = <<>>
                 /\ waited <= HandshakeTimeout
                 /\ waited' = waited + 1
                 /\ UNCHANGED <<searchvars, position, insetup, tcvars, tk_deadline, messages, sent, epc, move_str, cleared, probe>>

\* __init__: the header, the identification lines, newgame()
Handshake == /\ epc = "handshake"
             /\ messages # <<>>
             /\ messages' = Tail(messages)
             /\ IF Head(messages).cmd = "aei"
                THEN /\ sent' = handshake_lines
                     /\ epc' = "idle"
                ELSE /\ sent' = <<>>
                     /\ epc' = "stopped"
             /\ UNCHANGED <<searchvars, position, insetup, tcvars, tk_deadline, move_str, cleared>>
             /\ waited' = 0
             /\ UNCHANGED probe

\* the main loop takes the next line when the engine is between commands
Taking(c) == /\ epc = "idle"
             /\ messages # <<>>
             /\ Head(messages).cmd = c
             /\ messages' = Tail(messages)

CmdIsReady == /\ Taking("isready")
              /\ sent' = <<Line("readyok", "", <<>>)>>
              /\ UNCHANGED <<searchvars, position, insetup, tcvars, tk_deadline, epc, move_str, cleared>>
              /\ UNCHANGED <<waited, probe>>

CmdNewGame == /\ Taking("newgame")
              /\ LET n == newgame(tc_move_s, tc_turntime_s)
                 IN /\ position' = n.position
                    /\ insetup' = n.insetup
                    /\ reserve_s' = n.reserve_s
                    /\ tc_move_s' = n.tc_move_s
                    /\ tc_turntime_s' = n.tc_turntime_s
              /\ cleared' = FALSE
              /\ sent' = <<>>
              /\ UNCHANGED <<searchvars, move_delay, total_move_time, tk_deadline, epc, move_str>>
              /\ UNCHANGED <<waited, probe>>

\* "setposition" without its arguments: unpacking msg.split(None, 2)[1:] raises
CmdMalformed == /\ Taking("setposition")
                /\ Head(messages).side = ""
                /\ sent' = <<>>
                /\ epc' = "stopped"
                /\ UNCHANGED <<searchvars, position, insetup, tcvars, tk_deadline, move_str, cleared, waited, probe>>

CmdSetPosition == /\ Taking("setposition")
                  /\ Head(messages).side # ""
                  /\ position' = Position(side_of(Head(messages).side), Head(messages).board)
                  /\ insetup' = FALSE
                  /\ cleared' = TRUE
                  /\ sent' = <<>>
                  /\ UNCHANGED <<searchvars, tcvars, tk_deadline, epc, move_str>>
                  /\ UNCHANGED <<waited, probe>>

CmdSetOption == /\ Taking("setoption")
                /\ LET name == Head(messages).name
                       value == Head(messages).value
                   IN /\ move_delay' = IF name = "delaymove" THEN value ELSE move_delay
                      /\ tc_move_s' = IF name = "tcmove" /\ ~IsNone(value) THEN value ELSE tc_move_s
                      /\ tc_turntime_s' = IF name = "tcturntime" /\ ~IsNone(value) THEN set_tcturntime(value) ELSE tc_turntime_s
                      /\ reserve_s' = IF name = "greserve" /\ ~IsNone(value) THEN [reserve_s EXCEPT ![GOLD] = Val(value)]
                                      ELSE IF name = "sreserve" /\ ~IsNone(value) THEN [reserve_s EXCEPT ![SILVER] = Val(value)]
                                      ELSE reserve_s
                      /\ sent' = IF name \notin {"checkmoves", "delaymove"} /\ name \notin std_opts
                                 THEN <<Line("log", "Warning: Received unrecognized option", <<>>)>> ELSE <<>>
                /\ UNCHANGED <<searchvars, position, insetup, total_move_time, tk_deadline, epc, move_str, cleared>>
                /\ UNCHANGED <<waited, probe>>

CmdMakeMove == /\ Taking("makemove")
               /\ LET np == do_move_str(position, Head(messages).move)
                  IN IF np = IllegalMove
                     THEN /\ sent' = <<Line("log", "Error: received illegal move", <<>>)>>
                          /\ epc' = makemove_exit(FALSE, epc)
                          /\ UNCHANGED <<position, insetup, cleared>>
                     ELSE /\ position' = np
                          /\ insetup' = makemove_insetup(insetup, np.color)
                          /\ cleared' = (cleared \/ np.color = GOLD)
                          /\ sent' = <<>>
                          /\ epc' = makemove_exit(TRUE, epc)
               /\ UNCHANGED <<searchvars, tcvars, tk_deadline, move_str>>
               /\ UNCHANGED <<waited, probe>>

\* "go ponder" and the like, stop, and lines no branch matches
CmdIgnored == /\ \E c \in {"go ponder", "stop", "junk", "aei"} : Taking(c)
              /\ sent' = <<>>
              /\ UNCHANGED <<searchvars, position, insetup, tcvars, tk_deadline, epc, move_str, cleared>>
              /\ UNCHANGED <<waited, probe>>

CmdQuit == /\ Taking("quit")
           /\ sent' = <<Line("log", "Debug: Exiting after receiving quit message.", <<>>)>>
                      \o (IF total_move_time > 0 THEN <<Line("info", "move gen time", <<>>)>> ELSE <<>>)
           /\ epc' = "stopped"
           /\ UNCHANGED <<searchvars, position, insetup, tcvars, tk_deadline, move_str, cleared>>
           /\ UNCHANGED <<waited, probe>>

\* go() in setup: the placement of the basic setup for the side to move
go_setup_move_gold(color) == to_placing_move(GOLD)
go_setup_move(color) == to_placing_move(color)

\* go(): in setup the placement of the basic setup; else the budget, the deadline
\* tracker (its clock reading is the origin of `clock`) and the call of get_eval_step_move
GoStart == /\ Taking("go")
           /\ sent' = <<>>
           /\ IF insetup
              THEN /\ move_str' = go_setup_move(position.color)
                   /\ epc' = "go_emit"
                   /\ UNCHANGED <<searchvars, tk_deadline>>
              ELSE /\ tk_deadline' = start_move(0, compute_budget_s(tc_move_s, tc_turntime_s, reserve_s[position.color]))
                   /\ deadline' = tk_deadline'
                   /\ clock' = 0
                   /\ pos' = position
                   /\ pc' = "eval_start"
                   /\ epc' = "go_select"
                   /\ UNCHANGED <<cfgvars, entry, bucket_i, selvars, rounds, rvars, out, draws, gvars, move_str>>
           /\ UNCHANGED <<position, insetup, tcvars, cleared>>
           /\ UNCHANGED <<waited, probe>>

\* go() works on `pos = self.position` and never assigns self.position
go_position_played(p, result) == result
go_position(p, result) == p

\* the move string of the selected move, or the empty string and a warning when immobilized
GoSelected == /\ epc = "go_select"
              /\ pc = "done"
              /\ IF IsNone(out.steps)
                 THEN /\ move_str' = <<>>
                      /\ sent' = Append(sent, Line("log", "Warning: move requested when immobilized.", <<>>))
                 ELSE /\ move_str' = steps_to_str(position, Val(out.steps))
                      /\ UNCHANGED sent
              /\ epc' = "go_emit"
              /\ SearchReset
              /\ position' = go_position(position, out.result)
              /\ UNCHANGED <<insetup, tcvars, tk_deadline, messages, cleared>>
              /\ UNCHANGED <<waited, probe>>

\* the optional delay (time.sleep raises on a negative length), then info and bestmove
GoEmit == /\ epc = "go_emit"
          /\ IF ~IsNone(move_delay) /\ Val(move_delay) < 0
             THEN /\ epc' = "stopped"
                  /\ UNCHANGED <<sent, total_move_time>>
             ELSE /\ total_move_time' = 1
                  /\ sent' = sent \o <<Line("info", "time", <<>>), Line("bestmove", "", move_str)>>
                  /\ epc' = "idle"
          /\ move_str' = <<>>
          /\ UNCHANGED <<searchvars, position, insetup, tc_move_s, tc_turntime_s, reserve_s, move_delay, tk_deadline, messages, cleared>>
          /\ UNCHANGED <<waited, probe>>

\* the engine is created and waits for the header
Init == /\ SearchIdle
        /\ position = Position(GOLD, BLANK_BOARD)
        /\ insetup = TRUE
        /\ tc_move_s = NoneV
        /\ tc_turntime_s = NoneV
        /\ reserve_s = [c \in {GOLD, SILVER} |-> 0]
        /\ move_delay = NoneV
        /\ tk_deadline = NoneV
        /\ messages = <<>>
        /\ sent = <<>>
        /\ epc = "handshake"
        /\ move_str = <<>>
        /\ cleared = FALSE
        /\ total_move_time = 0
        /\ waited = 0
        /\ probe = <<>>

Next == \/ Receive
        \/ HandshakeWait
        \/ Handshake
        \/ CmdIsReady
        \/ CmdNewGame
        \/ CmdMalformed
        \/ CmdSetPosition
        \/ CmdSetOption
        \/ CmdMakeMove
        \/ CmdIgnored
        \/ CmdQuit
        \/ GoStart
        \/ EvalStart
        \/ EvalIter
        \/ EvalAfter
        \/ GoSelected
        \/ GoEmit

Spec == Init /\ [][Next]_vars

\* the scorer raises inside get_eval_step_move: nothing in go() or main() catches it
EvalRaise == /\ pc = "eval_loop"
             /\ entry = "go"
             /\ pc' = "raised"
             /\ epc' = "stopped"
             /\ UNCHANGED <<pos, deadline, clock, cfgvars, entry, bucket_i, selvars, rounds, rvars, out, draws, gvars>>
             /\ UNCHANGED <<position, insetup, tcvars, tk_deadline, messages, sent, move_str, cleared>>
             /\ UNCHANGED <<waited, probe>>

NextFault == Next \/ EvalRaise

SpecFault == Init /\ [][NextFault]_vars

\* --------------------------------------------- the budget formula on its own
IncValues == {NoneV, Some(0), Some(5), Some(200)}
ReserveValues == {-10, 0, 10, 20, 600, 1000}
TurntimeValues == {Some(-1), Some(0), Some(4), Some(100), Some(300)}

\* an engine with an increment and reserves configured, no cap yet
InitBudget == /\ SearchIdle
              /\ position \in {Position(c, BASIC_SETUP) : c \in {GOLD, SILVER}}
              /\ insetup = FALSE
              /\ tc_move_s \in IncValues
              /\ tc_turntime_s = NoneV
              /\ reserve_s \in [{GOLD, SILVER} -> ReserveValues]
              /\ move_delay = NoneV
              /\ tk_deadline = NoneV
              /\ messages = <<>>
              /\ sent = <<>>
              /\ epc = "budget"
              /\ move_str = <<>>
              /\ cleared = TRUE
              /\ total_move_time = 0
              /\ waited = 0
              /\ probe = <<>>

\* setoption("tcturntime", value)
BudgetSetTurntime == /\ epc = "budget"
                     /\ \E v \in TurntimeValues : tc_turntime_s' = set_tcturntime(v)
                     /\ UNCHANGED <<searchvars, position, insetup, tc_move_s, reserve_s, move_delay, total_move_time, tk_deadline,
                                    messages, sent, epc, move_str, cleared, waited, probe>>

\* _compute_budget_s(side to move)
BudgetCompute == /\ epc = "budget"
                 /\ probe' = [inc |-> tc_move_s, r |-> reserve_s[position.color], c |-> tc_turntime_s,
                              result |-> compute_budget_s(tc_move_s, tc_turntime_s, reserve_s[position.color])]
                 /\ UNCHANGED <<searchvars, position, insetup, tcvars, tk_deadline, messages, sent, epc, move_str, cleared, waited>>

NextBudget == BudgetSetTurntime \/ BudgetCompute

SpecBudget == InitBudget /\ [][NextBudget]_vars

\* ------------------------------------------- the deadline tracker on its own
TkBudgets == BudgetValues \cup {Some(10)}

\* a fresh TimeKeeper: no deadline
InitTimer == /\ SearchIdle
             /\ EngineOff
             /\ probe = [t0 |-> 0, b |-> NoneV, queried |-> "none", now |-> 0, expired |-> FALSE, left |-> NoneV]

\* start_move(budget_s), reading the clock once
TkStartMove == /\ epc = "off"
               /\ \E t \in clock..MaxClock, b \in TkBudgets :
                    /\ clock' = t
                    /\ tk_deadline' = start_move(t, b)
                    /\ probe' = [t0 |-> t, b |-> b, queried |-> "none", now |-> t, expired |-> FALSE, left |-> NoneV]
               /\ UNCHANGED <<pos, deadline, cfgvars, entry, pc, bucket_i, selvars, rounds, rvars, out, draws, gvars>>
               /\ UNCHANGED <<position, insetup, tcvars, messages, sent, epc, move_str, cleared, waited>>

\* out_of_time(), reading the clock once
TkOutOfTime == /\ epc = "off"
               /\ \E t \in clock..MaxClock :
                    /\ clock' = t
                    /\ probe' = [probe EXCEPT !.queried = "out_of_time", !.now = t, !.expired = out_of_time(t, tk_deadline)]
               /\ UNCHANGED <<pos, deadline, cfgvars, entry, pc, bucket_i, selvars, rounds, rvars, out, draws, gvars>>
               /\ UNCHANGED <<position, insetup, tcvars, tk_deadline, messages, sent, epc, move_str, cleared, waited>>

\* time_left(), reading the clock once
TkTimeLeft == /\ epc = "off"
              /\ \E t \in clock..MaxClock :
                   /\ clock' = t
                   /\ probe' = [probe EXCEPT !.queried = "time_left", !.now = t, !.left = time_left(t, tk_deadline)]
              /\ UNCHANGED <<pos, deadline, cfgvars, entry, pc, bucket_i, selvars, rounds, rvars, out, draws, gvars>>
              /\ UNCHANGED <<position, insetup, tcvars, tk_deadline, messages, sent, epc, move_str, cleared, waited>>

NextTimer == TkStartMove \/ TkOutOfTime \/ TkTimeLeft

SpecTimer == InitTimer /\ [][NextTimer]_vars

\* ------------------------------------------------- the notation translator
\* a line is a sequence of characters; a raised NotationTranslationError is a
\* result with the flag `raised`
Chars == {"1", "g", "S", "w", " ", "a"}
\* the digits and the whitespace among them
DigitChars == {"1"}
SpaceChars == {" "}

\* the length of the longest prefix of s made of characters of C
RECURSIVE LeadLen(_, _)
LeadLen(s, C) == IF s = <<>> \/ Head(s) \notin C THEN 0 ELSE 1 + LeadLen(Tail(s), C)
Drop(s, n) == SubSeq(s, n + 1, Len(s))

\* str.split(): the maximal runs of non-whitespace characters
RECURSIVE split(_)
split(s) == LET t == Drop(s, LeadLen(s, SpaceChars))
                n == LeadLen(t, Chars \ SpaceChars)
            IN IF t = <<>> THEN <<>> ELSE <<SubSeq(t, 1, n)>> \o split(Drop(t, n))
\* " ".join(tokens)
RECURSIVE join(_)
join(tokens) == IF tokens = <<>> THEN <<>>
                ELSE IF Len(tokens) = 1 THEN tokens[1]
                ELSE tokens[1] \o <<" ">> \o join(Tail(tokens))

\* _INTERNAL_HEADER_RE.match(line): ^\s*(\d+)\s*([gGsS])(?:\s+(.*))?\s*$
INTERNAL_HEADER_RE_adjacent(line) ==
    LET s1 == Drop(line, LeadLen(line, SpaceChars))
        n == LeadLen(s1, DigitChars)
        s3 == Drop(s1, n)
        NoMatch == [ok |-> FALSE, num |-> <<>>, side |-> "", rest |-> <<>>]
    IN IF n = 0 \/ s3 = <<>> \/ s3[1] \notin {"g", "G", "s", "S"} THEN NoMatch
       ELSE LET after == Tail(s3)
                k == LeadLen(after, SpaceChars)
            IN IF after # <<>> /\ k = 0 THEN NoMatch
               ELSE [ok |-> TRUE, num |-> SubSeq(s1, 1, n), side |-> s3[1], rest |-> Drop(after, k)]
INTERNAL_HEADER_RE(line) ==
    LET s1 == Drop(line, LeadLen(line, SpaceChars))
        n == LeadLen(s1, DigitChars)
        s2 == Drop(s1, n)
        s3 == Drop(s2, LeadLen(s2, SpaceChars))
        NoMatch == [ok |-> FALSE, num |-> <<>>, side |-> "", rest |-> <<>>]
    IN IF n = 0 \/ s3 = <<>> \/ s3[1] \notin {"g", "G", "s", "S"} THEN NoMatch
       ELSE LET after == Tail(s3)
                k == LeadLen(after, SpaceChars)
            IN IF after # <<>> /\ k = 0 THEN NoMatch
               ELSE [ok |-> TRUE, num |-> SubSeq(s1, 1, n), side |-> s3[1], rest |-> Drop(after, k)]

\* g/G to w, s/S to b, anything else raises (no value)
internal_side_to_db_side(side) == IF side \in {"g", "G"} THEN Some("w")
                                  ELSE IF side \in {"s", "S"} THEN Some("b")
                                  ELSE NoneV

Raised == [raised |-> TRUE, out |-> <<>>]
translate_move_line_internal_to_db(line) ==
    LET m == INTERNAL_HEADER_RE(line)
    IN IF ~m.ok THEN Raised
       ELSE LET db_side == internal_side_to_db_side(m.side)
                rest == join(split(m.rest))
            IN IF IsNone(db_side) THEN Raised
               ELSE [raised |-> FALSE, out |-> IF rest # <<>> THEN m.num \o <<Val(db_side), " ">> \o rest
                                               ELSE m.num \o <<Val(db_side)>>]

\* a line to translate
InitNotation == /\ SearchIdle
                /\ EngineOff
                /\ \E n \in 0..MaxLine : \E l \in [1..n -> Chars] :
                      probe = [line |-> l, called |-> FALSE, result |-> Raised, again |-> Raised]

\* the line is translated, and the translation is given to the translator again
Translate == /\ epc = "off"
             /\ ~probe.called
             /\ LET r == translate_move_line_internal_to_db(probe.line)
                IN probe' = [probe EXCEPT !.called = TRUE, !.result = r,
                                          !.again = IF r.raised THEN Raised ELSE translate_move_line_internal_to_db(r.out)]
             /\ UNCHANGED <<searchvars, position, insetup, tcvars, tk_deadline, messages, sent, epc, move_str, cleared, waited>>

SpecNotation == InitNotation /\ [][Translate]_vars

\* ------------------------------------------------ the evaluation on its own
\* boards with at most two gold pieces and one silver piece, anywhere on the row
EvalBoards == {b \in [1..4 -> {EMPTY, GELEPHANT, SCAT}] : /\ Cardinality(placement(b, GOLD)) <= 2
                                                          /\ Cardinality(placement(b, SILVER)) <= 1}

\* a position, a weight record and a mobility mode to evaluate
InitEval == /\ SearchIdle
            /\ EngineOff
            /\ \E b \in EvalBoards, c \in {GOLD, SILVER}, m \in BOOLEAN :
               \E w1, w2, w3, w4, w5, w6 \in {-1, 0, 2} :
                  probe = [pos |-> Position(c, b), weights |-> EvalWeights(w1, w2, w3, w4, w5, w6), legal_mobility |-> m,
                           called |-> FALSE, gold |-> 0, silver |-> 0, glue |-> 0,
                           fgold |-> <<0, 0, 0, 0, 0, 0>>, fsilver |-> <<0, 0, 0, 0, 0, 0>>]

\* the six features in the order of the sum
features(p, perspective, legal_mobility) == << feature_material_counts(p, perspective),
                                               feature_trap_control_and_danger(p, perspective),
                                               feature_frozen_pieces(p, perspective),
                                               feature_mobility(p, perspective, legal_mobility),
                                               feature_advancement(p, perspective),
                                               feature_immediate_goal_threats(p, perspective) >>

\* the score get_eval_step_move gives a move: score_move(pos, result_pos, steps,
\* perspective, weights); GlueConfig.legal_mobility is not handed on, and
\* score_move evaluates with the default legal_mobility=True
glue_score_wired(config, from_pos, to_pos, steps) ==
    Minus(evaluate_position(to_pos, from_pos.color, config.weights, config.legal_mobility), shaping_penalty(steps))
glue_score(config, from_pos, to_pos, steps) ==
    Minus(evaluate_position(to_pos, from_pos.color, config.weights, TRUE), shaping_penalty(steps))
GlueConfig(w, legal_mobility) == [weights |-> w, legal_mobility |-> legal_mobility]
\* the move that is scored in the harness: one step, from a position of the other side
GlueSteps == << <<0, 1>> >>
GlueFrom(p) == Position(Other(p.color), p.board)

\* evaluate_position for each perspective, each feature for each perspective, and
\* the score of get_eval_step_move for the position as the result of a move
Evaluate == /\ epc = "off"
            /\ ~probe.called
            /\ probe' = [probe EXCEPT !.called = TRUE,
                                      !.gold = evaluate_position(probe.pos, GOLD, probe.weights, probe.legal_mobility),
                                      !.silver = evaluate_position(probe.pos, SILVER, probe.weights, probe.legal_mobility),
                                      !.glue = glue_score(GlueConfig(probe.weights, probe.legal_mobility), GlueFrom(probe.pos), probe.pos, GlueSteps),
                                      !.fgold = features(probe.pos, GOLD, probe.legal_mobility),
                                      !.fsilver = features(probe.pos, SILVER, probe.legal_mobility)]
            /\ UNCHANGED <<searchvars, position, insetup, tcvars, tk_deadline, messages, sent, epc, move_str, cleared, waited>>

SpecEval == InitEval /\ [][Evaluate]_vars

\* ------------------------------------------------ properties of the search
ReturnedMove == [steps |-> Val(out.steps), result |-> out.result]
ScoreOf(c) == score_move(pos, c.result, Val(c.steps), weights)
ScoresOf(sq) == {sq[i].s : i \in 1..Len(sq)}
MaxScore(sq) == IF sq = <<>> THEN NegInf ELSE CHOOSE m \in ScoresOf(sq) : \A x \in ScoresOf(sq) : x <= m
RECURSIVE Attaining(_, _)
Attaining(sq, m) == IF sq = <<>> THEN <<>>
                    ELSE Attaining(SubSeq(sq, 1, Len(sq) - 1), m) \o (IF sq[Len(sq)].s = m THEN <<sq[Len(sq)].cand>> ELSE <<>>)

\* C1: in deadline mode, for a position with at least one legal move, the picker
\* returns one of the moves the generator can produce, never (None, pos)
C1_PickerReturnsLegalMove == (entry = "pick" /\ pc = "done" /\ ~IsNone(deadline) /\ MoveSet(pos) # {})
                             => (~IsNone(out.steps) /\ ReturnedMove \in MoveSet(pos))

\* C2: for a position with no legal move, the picker (with and without a deadline)
\* and get_eval_step_move return (None, pos), pos being the position passed in
C2_ImmobilizedReturnsNoMove == (entry \in {"pick", "eval"} /\ pc = "done" /\ MoveSet(pos) = {})
                               => (out.steps = <<>> /\ out.result = pos)
C2_Witness == /\ entry = "pick" /\ pc = "done" /\ ~IsNone(deadline) /\ MoveSet(pos) = {}
              /\ draws > 0 /\ out.steps = <<>> /\ out.result = pos

\* C4: get_filtered_move returns (None, pos) only when the generator reported the
\* position immobilized, so that "nothing matched" is never taken for "no legal move"
C4_NoMoveOnlyWhenImmobilized == (entry = "reducer" /\ pc = "done" /\ IsNone(out.steps)) => MoveSet(pos) = {}

\* C5: best_score is the maximum of the scores seen so far, best holds exactly the
\* candidates attaining it, in the order scored, and the returned move scores at
\* least as much as every candidate scored during the run
C5_BestSoFar == entry \in {"pick", "eval"}
                => /\ best_score = MaxScore(scored)
                   /\ best = Attaining(scored, best_score)
                   /\ (pc = "done" /\ scored # <<>> /\ ~IsNone(out.steps))
                      => \A i \in 1..Len(scored) : ScoreOf(out) >= scored[i].s
C5_Witness == /\ entry = "pick" /\ pc = "done" /\ ~IsNone(out.steps)
              /\ Len(scored) = 2 /\ scored[2].s < scored[1].s
              /\ ScoreOf(out) = scored[1].s

\* ------------------------------------------------ properties of the engine
InfoTime == Line("info", "time", <<>>)
ImmobilizedWarning == Line("log", "Warning: move requested when immobilized.", <<>>)
IllegalMoveError == Line("log", "Error: received illegal move", <<>>)
LinesOfKind(sq, k) == {i \in 1..Len(sq) : sq[i].kind = k}
GoEnds == epc = "go_emit" /\ epc' # "go_emit"
DelayIsValid == IsNone(move_delay) \/ Val(move_delay) >= 0

\* C3: a go on a position with a legal move, outside setup, whatever the time
\* controls, ends with a bestmove whose move is non-empty and legal in the position,
\* and playing it gives the other side the move on a different board
C3_GoAnswersLegalMove == [][(GoEnds /\ ~insetup /\ MoveSet(position) # {} /\ DelayIsValid)
                            => /\ epc' = "idle"
                               /\ sent' # <<>>
                               /\ LET b == sent'[Len(sent')]
                                      np == do_move_str(position, b.arg)
                                  IN /\ b.kind = "bestmove"
                                     /\ b.arg # <<>>
                                     /\ np # IllegalMove
                                     /\ np.color = Other(position.color)
                                     /\ np.board # position.board]_vars
C3_Witness == /\ epc = "idle" /\ ~insetup /\ MoveSet(position) # {}
              /\ tk_deadline = Some(0)
              /\ Len(sent) = 2 /\ sent[2].kind = "bestmove" /\ sent[2].arg # <<>>
              /\ do_move_str(position, sent[2].arg) # IllegalMove

\* C6: during a go the move comes from random draws of the picker against the
\* deadline, and the legal moves of the position are never enumerated
C6_GoSamplesNeverEnumerates == /\ epc = "go_select" => ~enumerated
                               /\ (epc = "go_select" /\ pc = "done" /\ ~IsNone(out.steps)) => draws > 0

\* C7: every go ends, before another line is taken from the queue, with exactly one
\* bestmove line preceded by exactly one "info time" line; for an immobilized
\* position the move is empty and a warning log line comes first
C7_GoAnswersExactlyOnce == [][/\ epc \in {"go_select", "go_emit"} => Len(messages') >= Len(messages)
                              /\ GoEnds => /\ epc' = "idle"
                                           /\ Len(sent') >= 2
                                           /\ LinesOfKind(sent', "bestmove") = {Len(sent')}
                                           /\ LinesOfKind(sent', "info") = {Len(sent') - 1}
                                           /\ sent'[Len(sent') - 1] = InfoTime
                                           /\ (~insetup /\ MoveSet(position) = {})
                                              => (sent'[Len(sent')].arg = <<>> /\ sent'[1] = ImmobilizedWarning)]_vars

\* C8: when the scorer raises during a go, the engine still sends a bestmove line
\* and goes on with the next command
C8_FailureStillAnswers == pc = "raised" => (epc = "idle" /\ sent # <<>> /\ sent[Len(sent)].kind = "bestmove")

C10_InSetupFlag == insetup = ~cleared
C10_Witness == /\ epc = "idle" /\ insetup /\ position = Position(SILVER, GOLD_PLACED) /\ sent = <<>>

TakingLine(c) == epc = "idle" /\ messages # <<>> /\ Head(messages).cmd = c /\ messages' = Tail(messages)
NoReserve == [c \in {GOLD, SILVER} |-> 0]

\* C11: newgame gives the blank position with Gold to move, sets InSetup and zeroes
\* both reserves, and leaves the move increment and the per-turn cap as they were
C11_NewgameKeepsTimeControls == [][TakingLine("newgame")
                                   => /\ position' = Position(GOLD, BLANK_BOARD)
                                      /\ insetup'
                                      /\ reserve_s' = NoReserve
                                      /\ tc_move_s' = tc_move_s
                                      /\ tc_turntime_s' = tc_turntime_s]_vars
C11_Witness == /\ epc = "idle" /\ insetup /\ position = Position(GOLD, BLANK_BOARD) /\ reserve_s = NoReserve
               /\ ~IsNone(tk_deadline) /\ tc_move_s = Some(5) /\ tc_turntime_s = Some(4)

\* C12: the increment is unset exactly until a setoption tcmove with a value is
\* processed, nothing unsets it afterwards, and a go outside setup starts the
\* deadline tracker without a deadline exactly when the increment is unset
C12_NoDeadlineOnlyWithoutIncrement ==
    [][/\ (IsNone(tc_move_s) /\ ~IsNone(tc_move_s'))
          => (TakingLine("setoption") /\ Head(messages).name = "tcmove" /\ ~IsNone(Head(messages).value))
       /\ (TakingLine("setoption") /\ Head(messages).name = "tcmove" /\ ~IsNone(Head(messages).value))
          => tc_move_s' = Head(messages).value
       /\ ~IsNone(tc_move_s) => ~IsNone(tc_move_s')
       /\ (TakingLine("go") /\ ~insetup)
          => (IsNone(tk_deadline') <=> IsNone(tc_move_s))]_vars
C12_Witness == /\ epc = "go_select" /\ pc = "eval_start" /\ ~IsNone(deadline) /\ deadline = tk_deadline
               /\ reserve_s = NoReserve /\ position.color = SILVER

\* the extra of the claim, in hundredths of a second (the reserve in tenths)
ClaimedExtra(r) == LET e == IF r \div 10 <= 50 THEN r \div 10 ELSE 50
                   IN IF r < 15 /\ e > 5 THEN 5 ELSE e

\* C13: with an increment, the budget is increment + extra, capped by the per-turn
\* cap when one is set and positive, where extra = min(0.10 r, 0.50), and at most
\* 0.05 when r < 0.15; without an increment there is no budget; a tcturntime of 0
\* or less is stored as no cap
C13_BudgetFormula == /\ ~IsNone(tc_turntime_s) => Val(tc_turntime_s) > 0
                     /\ probe # <<>>
                        => /\ IsNone(probe.inc) => IsNone(probe.result)
                           /\ ~IsNone(probe.inc)
                              => LET sum == Val(probe.inc) + ClaimedExtra(probe.r)
                                 IN /\ ~IsNone(probe.result)
                                    /\ (~IsNone(probe.c) /\ Val(probe.c) > 0 /\ Val(probe.c) < sum) => Val(probe.result) = Val(probe.c)
                                    /\ ~(~IsNone(probe.c) /\ Val(probe.c) > 0 /\ Val(probe.c) < sum) => Val(probe.result) = sum
                                    /\ probe.r < 15 => Val(probe.result) <= Val(probe.inc) + 5
C13_Witness == /\ epc = "budget" /\ probe # <<>>
               /\ probe.inc = Some(200) /\ probe.r = 1000 /\ IsNone(probe.c) /\ probe.result = Some(250)

\* C14: start_move(b) at clock reading t0 sets the deadline to t0 + max(0, b - margin),
\* never before t0, or to none when b is None; until the next start_move,
\* out_of_time() is true exactly at readings at or after a set deadline, and
\* time_left() is the deadline minus the reading, or None
C14_DeadlineTracker == /\ IsNone(probe.b) <=> IsNone(tk_deadline)
                       /\ ~IsNone(probe.b)
                          => /\ Val(tk_deadline) >= probe.t0
                             /\ Val(tk_deadline) = probe.t0 + (IF Val(probe.b) > safety_margin_s THEN Val(probe.b) - safety_margin_s ELSE 0)
                       /\ probe.queried = "out_of_time"
                          => /\ (~IsNone(tk_deadline) /\ probe.now >= Val(tk_deadline)) => probe.expired
                             /\ (~IsNone(tk_deadline) /\ probe.now < Val(tk_deadline)) => ~probe.expired
                             /\ IsNone(tk_deadline) => ~probe.expired
                       /\ probe.queried = "time_left"
                          => probe.left = (IF IsNone(tk_deadline) THEN <<>> ELSE <<Val(tk_deadline) - probe.now>>)
C14_Witness == /\ probe.b = Some(10) /\ probe.t0 = 1 /\ tk_deadline = Some(8)
               /\ probe.queried = "out_of_time" /\ probe.now = MaxClock /\ ~probe.expired

HeaderTaken == epc = "handshake" /\ messages # <<>> /\ messages' = Tail(messages)
AeiOk == Line("aeiok", "", <<>>)

\* C15: nothing is sent and no command is processed before the header; on the
\* header "aei" the engine sends protocol-version 1, id name, id author and aeiok,
\* in this order, and is then in setup with the blank position
C15_HandshakeReply == [][epc = "handshake"
                         => /\ sent = <<>>
                            /\ (HeaderTaken /\ Head(messages).cmd = "aei")
                               => /\ Len(sent') = 4
                                  /\ sent'[1].kind = "protocol-version 1"
                                  /\ sent'[2] = Line("id", "name", <<>>)
                                  /\ sent'[3] = Line("id", "author", <<>>)
                                  /\ sent'[4] = AeiOk
                                  /\ epc' = "idle" /\ insetup' /\ position' = Position(GOLD, BLANK_BOARD)
                            /\ epc' = "idle" => (HeaderTaken /\ Head(messages).cmd = "aei")
                            /\ epc' = "handshake" => UNCHANGED <<sent, position, insetup, tcvars, tk_deadline>>]_vars
C15_Witness == /\ epc = "idle" /\ Len(sent) = 4 /\ sent[4] = AeiOk /\ sent[1].kind = "protocol-version 1"
               /\ insetup /\ position = Position(GOLD, BLANK_BOARD) /\ messages = <<>>

\* C16: the wait for the header ends with the handshake timeout: the engine is
\* never still waiting on the empty queue after the timeout
C16_HandshakeTimesOut == (epc = "handshake" /\ messages = <<>>) => waited <= HandshakeTimeout

\* C17: a first line other than "aei" is reported with a log line and ends the
\* session, with no aeiok
C17_BadHeaderIsLogged == [][(HeaderTaken /\ Head(messages).cmd # "aei")
                            => /\ epc' = "stopped"
                               /\ sent' # <<>>
                               /\ \A i \in 1..Len(sent') : sent'[i].kind = "log"]_vars

\* C18: after the handshake the main loop ends only on a quit line or on an illegal
\* makemove; every other line leaves it running
C18_LoopEndsOnlyOnQuitOrIllegalMove ==
    [][(epc \notin {"handshake", "stopped"} /\ epc' = "stopped")
       => /\ epc = "idle" /\ messages # <<>> /\ messages' = Tail(messages)
          /\ \/ Head(messages).cmd = "quit"
             \/ Head(messages).cmd = "makemove" /\ do_move_str(position, Head(messages).move) = IllegalMove]_vars

EngineState == <<position, insetup, tcvars, tk_deadline, sent, epc, move_str>>

\* C19: lines join the queue at the back and leave it at the front, one at a time
\* and only between commands; a line arriving during a go changes nothing of the
\* engine's state or output, and with the queue empty the idle engine does nothing
C19_QueueIsFifo == [][/\ messages' # messages
                         => \/ epc \in {"idle", "handshake"} /\ messages # <<>> /\ messages' = Tail(messages)
                            \/ (\E m \in Lines : messages' = Append(messages, m)) /\ UNCHANGED EngineState
                      /\ epc \in {"go_select", "go_emit"}
                         => (Len(messages') >= Len(messages) /\ SubSeq(messages', 1, Len(messages)) = messages)
                      /\ (epc = "idle" /\ messages = <<>>) => UNCHANGED EngineState]_vars
C19_Witness == epc = "go_select" /\ pc = "eval_loop" /\ messages = <<Msg("stop"), Msg("isready")>>

\* C20: a go, in setup or in play, leaves the position, the InSetup flag, the
\* increment, the cap and the reserves as they were; the position changes only
\* on a makemove, a setposition or a newgame
C20_GoKeepsEngineState == [][/\ (TakingLine("go") \/ epc \in {"go_select", "go_emit"})
                                => UNCHANGED <<position, insetup, tc_move_s, tc_turntime_s, reserve_s>>
                             /\ position' # position
                                => (\E c \in {"makemove", "setposition", "newgame"} : TakingLine(c))]_vars
C20_Witness == /\ epc = "idle" /\ ~insetup /\ position = Position(SILVER, BASIC_SETUP)
               /\ Len(sent) = 2 /\ sent[2].kind = "bestmove" /\ sent[2].arg # <<>>
               /\ tc_move_s = Some(2) /\ reserve_s[SILVER] = 10

\* C21: a go taken while InSetup is set answers with the placement of the basic
\* setup for the side to move (Gold's on the blank board, Silver's once Gold has
\* placed), and computes no budget, leaves the deadline tracker alone and draws
\* or enumerates no move
C21_SetupGoPlaces == [][/\ (TakingLine("go") /\ insetup)
                           => /\ epc' = "go_emit"
                              /\ UNCHANGED <<searchvars, tk_deadline>>
                        /\ (GoEnds /\ insetup /\ DelayIsValid)
                           => /\ pc = "off" /\ draws = 0 /\ ~enumerated
                              /\ sent' = <<InfoTime, Line("bestmove", "", to_placing_move(position.color))>>
                              /\ position \in {Position(GOLD, BLANK_BOARD), Position(SILVER, GOLD_PLACED)}
                              /\ position.color = GOLD => sent'[2].arg = <<[p |-> GELEPHANT, sq |-> 0, d |-> "-"]>>
                              /\ position.color = SILVER => sent'[2].arg = <<[p |-> SCAT, sq |-> 3, d |-> "-"]>>]_vars
C21_Witness == /\ epc = "idle" /\ insetup /\ position = Position(SILVER, GOLD_PLACED)
               /\ Len(sent) = 2 /\ sent[2] = Line("bestmove", "", <<[p |-> SCAT, sq |-> 3, d |-> "-"]>>)
               /\ IsNone(tk_deadline)

\* the reducer was called directly and has returned
ReducerDone == entry = "reducer" /\ pc = "done"
\* no legal move of the position satisfies the constraints of the call
Unsatisfiable == /\ MoveSet(pos) # {}
                 /\ \A m \in MoveSet(pos) : ~matches_constraints(pos, m.steps, r_cons.only_pieces, r_cons.only_squares)

\* C22: with fallback_to_unfiltered set, on a position with legal moves and
\* constraints no legal move satisfies, get_filtered_move returns the last move it
\* drew, a legal move with its resulting position, and never the no-match result
C22_FallbackReturnsLastDraw == (ReducerDone /\ r_fallback /\ Unsatisfiable)
                               => /\ ~IsNone(out.steps)
                                  /\ out = last
                                  /\ [steps |-> Val(out.steps), result |-> out.result] \in MoveSet(pos)

BothOrNeither == IsNone(probe.time_budget_s) = IsNone(probe.deadline)

\* C23: get_filtered_move given both a relative budget and a deadline, or neither,
\* fails with the input error before any draw; given exactly one it never fails
\* so; a relative budget b becomes the deadline now + max(0, b), and a given
\* deadline is used as it is
C23_ExactlyOneTimeArgument ==
    [][/\ pc = "reducer_call"
          => /\ draws = 0
             /\ BothOrNeither => (pc' = "value_error" /\ draws' = 0)
             /\ ~BothOrNeither => pc' = "reducer"
             /\ (~BothOrNeither /\ IsNone(probe.deadline))
                => /\ clock' >= clock
                   /\ deadline' = Some(clock' + (IF Val(probe.time_budget_s) > 0 THEN Val(probe.time_budget_s) ELSE 0))
             /\ (~BothOrNeither /\ ~IsNone(probe.deadline)) => deadline' = probe.deadline
       /\ pc' = "value_error" => (pc = "reducer_call" /\ BothOrNeither)
       /\ pc = "value_error" => draws' = 0]_vars
C23_Witness == /\ ReducerDone /\ probe.time_budget_s = Some(-1) /\ IsNone(probe.deadline)
               /\ clock = 1 /\ deadline = Some(1) /\ draws = 0

\* C24: for every position without a winner, every weight record and either
\* mobility mode, the evaluation for Gold is the negation of the evaluation for
\* Silver, and so is each of the six features
C24_PerspectiveAntisymmetry == (probe.called /\ is_end_state(probe.pos) = 0)
                               => /\ probe.gold = 0 - probe.silver
                                  /\ \A i \in 1..6 : probe.fgold[i] = 0 - probe.fsilver[i]
C24_Witness == /\ probe.called /\ is_end_state(probe.pos) = 0
               /\ Cardinality({i \in 1..6 : probe.fgold[i] # 0}) >= 5
               /\ probe.gold < 0 /\ probe.silver > 0 /\ ~probe.legal_mobility

\* the weighted sum of a feature vector
WeightedSum(w, f) == w.material * f[1] + w.trap * f[2] + w.frozen * f[3] + w.mobility * f[4] + w.rabbits * f[5] + w.goal_threat * f[6]
Finite(x) == NegInf < x /\ x < PosInf

\* C25: when the terminal test names a winner the evaluation is +infinity for the
\* winner's perspective and -infinity for the other, whatever the weights and
\* the mobility mode; with no winner it is the finite weighted sum of the features
C25_TerminalFirst == probe.called
                     => /\ is_end_state(probe.pos) = 1 => (probe.gold = PosInf /\ probe.silver = NegInf)
                        /\ is_end_state(probe.pos) = -1 => (probe.gold = NegInf /\ probe.silver = PosInf)
                        /\ is_end_state(probe.pos) = 0
                           => /\ probe.gold = WeightedSum(probe.weights, probe.fgold) /\ Finite(probe.gold)
                              /\ probe.silver = WeightedSum(probe.weights, probe.fsilver) /\ Finite(probe.silver)
C25_Witness == /\ probe.called /\ is_end_state(probe.pos) = -1 /\ probe.pos.color = GOLD
               /\ probe.gold = NegInf /\ probe.silver = PosInf
               /\ WeightedSum(probe.weights, probe.fgold) > 0 /\ probe.legal_mobility

\* a line without its leading and trailing whitespace
RECURSIVE RStrip(_)
RStrip(s) == IF s # <<>> /\ s[Len(s)] \in SpaceChars THEN RStrip(SubSeq(s, 1, Len(s) - 1)) ELSE s
Strip(s) == RStrip(Drop(s, LeadLen(s, SpaceChars)))
\* the form of the claim: digits, a side letter right after them, then nothing or
\* whitespace and tokens
InternalForm(line) == LET t == Strip(line)
                          n == LeadLen(t, DigitChars)
                      IN /\ n > 0 /\ Len(t) > n /\ t[n + 1] \in {"g", "G", "s", "S"}
                         /\ (Len(t) = n + 1 \/ t[n + 2] \in SpaceChars)
ExpectedDb(line) == LET t == Strip(line)
                        n == LeadLen(t, DigitChars)
                        tokens == split(Drop(t, n + 1))
                    IN SubSeq(t, 1, n) \o <<IF t[n + 1] \in {"g", "G"} THEN "w" ELSE "b">>
                       \o (IF tokens = <<>> THEN <<>> ELSE <<" ">> \o join(tokens))

\* C26: a line of digits, a side letter g/G/s/S and optional tokens, with
\* whitespace around it, is translated to the digits, w or b, and the tokens
\* joined by single spaces; every other line raises, and the translation of a
\* line is never itself accepted
C26_TranslatesExactlyInternalLines ==
    probe.called => /\ InternalForm(probe.line) => (~probe.result.raised /\ probe.result.out = ExpectedDb(probe.line))
                    /\ ~InternalForm(probe.line) => probe.result.raised
                    /\ probe.again.raised

\* C27: in deadline mode the k-th reducer invocation of the main loop (k = 0, 1, ...)
\* is given bucket k mod N of the N buckets, the first bucket being the
\* unrestricted one; the index then moves on by one, back to the first after the last
C27_BucketRotation == (entry = "pick" /\ ~IsNone(deadline) /\ pc # "pick_start" /\ buckets # <<>>)
                      => /\ buckets[1] = MoveConstraints(NoneV, NoneV)
                         /\ bucket_i = rounds % Len(buckets)
                         /\ (pc = "reducer" /\ r_caller = "main")
                            => r_cons = buckets[((rounds - 1) % Len(buckets)) + 1]
C27_Witness == /\ entry = "pick" /\ pc = "reducer" /\ r_caller = "main"
               /\ Len(buckets) = 2 /\ rounds = 2 /\ bucket_i = 0
               /\ r_cons = buckets[2] /\ r_cons # buckets[1]

\* the reducer draws a move of a position that has moves
ReducerDraws == pc = "reducer" /\ draws' = draws + 1 /\ MoveSet(pos) # {}
\* the constraint test of the claim: the piece a step moves is the piece on the
\* step's from-square when the step is made
PieceMovedBy(from_pos, steps, i) == steps_to_str(from_pos, steps)[i].p
ClaimedMatch(from_pos, steps, cons) ==
    \A i \in 1..Len(steps) :
       /\ ~IsNone(cons.only_pieces) => PieceMovedBy(from_pos, steps, i) \in Val(cons.only_pieces)
       /\ ~IsNone(cons.only_squares) => (steps[i][1] \in Val(cons.only_squares) /\ steps[i][2] \in Val(cons.only_squares))

\* C28: the reducer accepts a drawn move exactly when every step's piece is among
\* only_pieces (when given) and both squares of every step are among
\* only_squares (when given); so a move of several steps by one allowed piece
\* is accepted
C28_ConstraintTest == [][ReducerDraws
                         => /\ ClaimedMatch(pos, Val(last'.steps), r_cons) => (pc' # "reducer" /\ ret' = last')
                            /\ ~ClaimedMatch(pos, Val(last'.steps), r_cons) => (pc' = "reducer" /\ r_left' = r_left - 1)]_vars

\* C29: one call of get_filtered_move draws at most max(1, max_attempts) moves;
\* a draw that reports immobilization or matches the constraints is returned at
\* once; an iteration whose clock reading is at or after the deadline draws
\* nothing; every iteration returns or uses up one attempt, so the call ends
C29_ReducerBoundedDraws ==
    [][(entry = "reducer" /\ pc = "reducer")
       => /\ draws' \in {draws, draws + 1}
          /\ draws' <= Max2(1, max_attempts_per_bucket)
          /\ pc' = "reducer" => (r_left' = r_left - 1 /\ r_left' >= 0 /\ draws' = draws + 1)
          /\ pc' # "reducer" => (pc' = "done" /\ UNCHANGED r_left)
          /\ (draws' = draws + 1 /\ MoveSet(pos) = {}) => (pc' = "done" /\ out' = NoMove(pos))
          /\ (draws' = draws + 1 /\ MoveSet(pos) # {}
                /\ matches_constraints(pos, Val(last'.steps), r_cons.only_pieces, r_cons.only_squares))
             => (pc' = "done" /\ out' = last')
          /\ clock' >= Val(deadline) => (draws' = draws /\ pc' = "done")]_vars
C29_Witness == /\ ReducerDone /\ max_attempts_per_bucket = MaxAttempts /\ draws = MaxAttempts
               /\ r_left = 1 /\ ~IsNone(out.steps) /\ clock < Val(deadline)
               /\ ~IsNone(r_cons.only_squares)

\* the picker runs in deadline mode
PickerRuns == entry = "pick" /\ ~IsNone(deadline) /\ pc \notin {"pick_start", "done"}
\* the steps the picker still has to take once the deadline has been observed
StepsLeft == CASE pc = "done" -> 0
               [] pc = "pick_fb_got" -> 1
               [] pc = "reducer" /\ r_caller = "fallback" -> 2
               [] pc = "pick_after" -> 3
               [] pc \in {"pick_while", "pick_got"} -> 4
               [] OTHER -> 5

\* C30: in deadline mode the clock is read before each sampling round and after
\* each scoring, and the loop is left when the reading is at or after the
\* deadline; no reducer invocation of the main loop starts once a reading at or
\* after the deadline was made; at most one candidate is scored after the
\* deadline; once the deadline is reached every step brings the return nearer
C30_DeadlineChecks ==
    [][PickerRuns
       => /\ clock' >= clock
          /\ pc = "pick_while" => pc' = (IF clock' >= Val(deadline) THEN "pick_after" ELSE "reducer")
          /\ (pc = "pick_got" /\ scored' # scored)
             => pc' = (IF clock' >= Val(deadline) THEN "pick_after" ELSE "pick_while")
          /\ (clock >= Val(deadline) /\ pc # "reducer") => ~(pc' = "reducer" /\ r_caller' = "main")
          /\ (scored' # scored /\ clock >= Val(deadline)) => pc' = "pick_after"
          /\ (pc = "pick_after" \/ r_caller = "fallback" \/ pc = "pick_fb_got") => scored' = scored
          /\ clock >= Val(deadline) => StepsLeft' < StepsLeft]_vars
C30_Witness == /\ entry = "pick" /\ pc = "pick_after" /\ clock >= Val(deadline) /\ Val(deadline) > 0
               /\ Len(scored) = 2 /\ draws > 2 /\ best # <<>>

\* the picker has returned from its last unconstrained attempt
FallbackDone == entry = "pick" /\ pc = "done" /\ r_caller = "fallback"

\* C31: when the deadline has passed before the first sample, the picker's last
\* unconstrained attempt draws between 1 and 8 moves and returns the drawn legal
\* move, and reports no legal move only for an immobilized position
C31_FallbackDrawsOnce == FallbackDone
                         => /\ draws \in 1..FallbackAttempts
                            /\ IsNone(out.steps) => MoveSet(pos) = {}
                            /\ ~IsNone(out.steps) => ReturnedMove \in MoveSet(pos)

\* C32: the final selection of the picker, of get_eval_step_move and of the
\* two-stage selector is a member of the best set, and it is the earliest-inserted
\* member when random ties are disabled or the best set has one member
FinalSelection == entry \in {"pick", "eval", "two_stage"} /\ pc = "done" /\ best # <<>> /\ ~IsNone(out.steps)
C32_FinalSelectionFromBest ==
    FinalSelection => /\ \E i \in 1..Len(best) : out = best[i]
                      /\ (~random_ties \/ Len(best) = 1) => out = best[1]
C32_Witness == FinalSelection /\ entry = "two_stage" /\ ~random_ties /\ Len(best) = 2 /\ best[1] # best[2] /\ out = best[1]

\* C33: for a non-empty move list the two-stage selector re-scores every member
\* of the stage-1 shortlist (the top stage1_top_k by cheap score, equal scores in
\* list order) and returns a member whose expensive score is maximal among that
\* whole shortlist; for an empty list it returns (None, from_pos)
Stage1Shortlist == shortlist1(score_all(pos.color, probe.moves, probe.config.weights, probe.config.stage1_legal_mobility), probe.config)
SlowScore(m) == two_stage_score(pos.color, m, probe.config.weights, probe.config.stage2_legal_mobility)
Unsampled == stage1_pools(probe.moves, probe.config.max_stage1_moves) = {probe.moves}
C33_BestOfStage1Shortlist ==
    (entry = "two_stage" /\ pc = "done")
    => IF probe.moves = <<>> THEN out = NoMove(pos)
       ELSE Unsampled => /\ Len(scored) = Len(Stage1Shortlist)
                         /\ \E i \in 1..Len(Stage1Shortlist) :
                               /\ out = EvalCand(Stage1Shortlist[i].m)
                               /\ \A j \in 1..Len(Stage1Shortlist) :
                                     SlowScore(Stage1Shortlist[i].m) >= SlowScore(Stage1Shortlist[j].m)

\* C34: stop, isready, go with extra arguments, an unrecognized line and setoption
\* with an informational or unrecognized name leave position, InSetup, increment,
\* cap and reserves unchanged; of them only isready (one readyok) and setoption with
\* an unrecognized name (one warning log, the engine goes on) produce output; the
\* increment and cap change only on setoption tcmove/tcturntime, the reserves only
\* on setoption greserve/sreserve or newgame
Takes == epc = "idle" /\ messages # <<>> /\ messages' = Tail(messages)
TakesOption(names) == Takes /\ Head(messages).cmd = "setoption" /\ Head(messages).name \in names
InformationalNames == {"tcreserve", "tcpercent", "tcmax", "tctotal", "tcturns", "gused", "sused",
                       "lastmoveused", "moveused", "opponent", "opponent_rating"}
HandledNames == {"checkmoves", "delaymove", "tcmove", "tcturntime", "greserve", "sreserve"}
UnrecognizedOption == Head(messages).name \notin InformationalNames \cup HandledNames
InformationalOption == Head(messages).name \in InformationalNames
QuietLine == \/ Head(messages).cmd \in {"stop", "isready", "go ponder", "junk"}
             \/ Head(messages).cmd = "setoption" /\ (UnrecognizedOption \/ InformationalOption)
UnrecognizedWarning == Line("log", "Warning: Received unrecognized option", <<>>)
C34_QuietCommands ==
    [][/\ (Takes /\ QuietLine)
          => /\ UNCHANGED <<position, insetup, tc_move_s, tc_turntime_s, reserve_s>>
             /\ epc' = "idle"
             /\ sent' = (IF Head(messages).cmd = "isready" THEN <<Line("readyok", "", <<>>)>>
                         ELSE IF Head(messages).cmd = "setoption" /\ UnrecognizedOption THEN <<UnrecognizedWarning>>
                         ELSE <<>>)
       /\ (tc_move_s' # tc_move_s \/ tc_turntime_s' # tc_turntime_s) => TakesOption({"tcmove", "tcturntime"})
       /\ reserve_s' # reserve_s => (TakesOption({"greserve", "sreserve"}) \/ (Takes /\ Head(messages).cmd = "newgame"))]_vars
C34_Witness == /\ sent = <<UnrecognizedWarning>>
               /\ epc = "idle"
               /\ ~insetup
               /\ ~IsNone(tc_move_s) /\ ~IsNone(tc_turntime_s)
               /\ reserve_s[GOLD] # 0

\* C35: in deadline mode, once at least one candidate has been scored, the picker
\* returns one of the scored candidates: it never drops a non-empty best set and
\* answers "no legal move", also when the deadline passes between the check of the
\* picker's loop and the first deadline check of the reducer in the next round
C35_ScoredCandidateReturned ==
    (entry = "pick" /\ pc = "done" /\ ~IsNone(deadline) /\ scored # <<>>)
    => /\ ~IsNone(out.steps)
       /\ \E i \in 1..Len(scored) : out = scored[i].cand

\* C36: the picker of common/search/anytime_picker and the picker of
\* utils/move_picker, given the same inputs and the same non-empty bucket list,
\* enter the loop they share (lines 69-113 and 70-114 are the same text) in the
\* same state, so that they make the same reducer calls and return the same
\* result; given an empty bucket list in deadline mode, either rejects the call
\* before any sampling: it never calls the reducer and never returns
PickerEntry == entry \in {"pick", "move_picker"} /\ ~IsNone(deadline)
BucketsGiven == entry = "move_picker" => ~probe.buckets_is_none
C36_PickersAgree ==
    [][/\ (PickerEntry /\ pc = "pick_start" /\ BucketsGiven /\ buckets # <<>>)
          => /\ pc' = "pick_while"
             /\ bucket_i' = 0 /\ best' = <<>> /\ best_score' = NegInf
             /\ UNCHANGED <<pos, deadline, clock, cfgvars, scored, rounds, rvars, out, draws>>
       /\ (PickerEntry /\ BucketsGiven /\ buckets = <<>>)
          => /\ pc' \notin {"reducer", "pick_got", "pick_fb_got", "done"}
             /\ draws' = 0]_vars

\* C37: the score get_eval_step_move gives a move does not depend on
\* GlueConfig.legal_mobility: a run with the flag set and a run with the flag
\* cleared score the move identically, and the mobility feature in that score is
\* the exact legal-step one
MobilityModesDiffer == feature_mobility(probe.pos, GOLD, TRUE) # feature_mobility(probe.pos, GOLD, FALSE)
C37_FlagIgnored ==
    probe.called
    => /\ probe.glue = glue_score(GlueConfig(probe.weights, ~probe.legal_mobility), GlueFrom(probe.pos), probe.pos, GlueSteps)
       /\ probe.glue = Minus(evaluate_position(probe.pos, Other(probe.pos.color), probe.weights, TRUE), shaping_penalty(GlueSteps))
C37_Witness == /\ probe.called
               /\ ~probe.legal_mobility
               /\ probe.weights.mobility # 0
               /\ MobilityModesDiffer
               /\ Finite(probe.glue)
               /\ probe.glue # Minus(evaluate_position(probe.pos, Other(probe.pos.color), probe.weights, FALSE), shaping_penalty(GlueSteps))

\* C38: for every reserve that setoption greserve/sreserve can store, zero and
\* negative ones included, and no per-turn cap, the extra time of _compute_budget_s
\* lies between 0 and 0.50 (the budget is never below the increment and never above
\* increment + 0.50), and only the reserve of the side to move influences the budget
C38_ExtraWithinBounds ==
    (probe # <<>> /\ ~IsNone(probe.inc) /\ IsNone(probe.c))
    => /\ Val(probe.result) >= Val(probe.inc)
       /\ Val(probe.result) <= Val(probe.inc) + reserve_cap
       /\ \A v \in ReserveValues :
             compute_budget_s(probe.inc, probe.c, [reserve_s EXCEPT ![Other(position.color)] = v][position.color]) = probe.result

\* C39: in the trap feature the adjacent count of a side equals its defender count,
\* so the under-defended penalty max(0, adjacent - 2 defenders) is zero for both
\* sides in every position, and the contribution of a trap is
\* 0.70 (gold defenders - silver defenders) plus the on-trap penalties of 1.25 for
\* a piece on the trap with no defender (against Gold for a gold piece, for Gold
\* for a silver piece); Silver's perspective is the negation
TrapSquare == CHOOSE t \in TRAP_BITS : TRUE
DefendersAt(board, color) == Cardinality({sq \in placement(board, color) : sq = TrapSquare - 1 \/ sq = TrapSquare + 1})
OnTrapUndefended(board, color) == IF TrapSquare \in placement(board, color) /\ DefendersAt(board, color) = 0 THEN 125 ELSE 0
ClaimedTrapScore(board) == 70 * (DefendersAt(board, GOLD) - DefendersAt(board, SILVER))
                           - OnTrapUndefended(board, GOLD) + OnTrapUndefended(board, SILVER)
====
